---- MODULE Spec2Model ----
(***************************************************************************)
(* VoiceFlow: the job queue, the worker pool, the job stores and the       *)
(* shutdown sequence, as state machines translated from the Go sources.    *)
(*                                                                         *)
(*   Spec        the worker pool over one queue (in-memory or RabbitMQ)    *)
(*               and the in-memory job store, with main's shutdown.        *)
(*   SpecQueue   the same queue and pool with processJob as one step and   *)
(*               more uploads than the queue holds.                        *)
(*   SpecUpdate  concurrent Store.Update callers on one job id, for each   *)
(*               store implementation.                                     *)
(*   SpecHybrid  the hybrid store (Redis hot tier, PostgreSQL cold tier),  *)
(*               its sync worker and Close; SpecHybridFair adds the sync   *)
(*               worker's progress.                                        *)
(***************************************************************************)
EXTENDS Integers, Sequences, FiniteSets, TLC

(* ------------------------------ bounds -------------------------------- *)

\* Uploads in the shutdown under fair scheduling.
NumDrainJobs == 1

\* Jobs uploaded during one run of the server, step by step through processJob.
NumJobs == 2

\* Jobs uploaded during one run of the server when processJob is one step.
NumMsgs == 3

\* Concurrent callers of Store.Update on one id.
NumCallers == 2

\* Jobs that go through the hybrid store.
NumHybridJobs == 1

\* Deliveries of one job's message: the first, and the broker's redeliveries.
MaxDeliveries == 2

\* Capacity of the hybrid store's syncQueue.
SyncQueueCap == 1

\* Length at which the sync worker flushes its batch.
BatchSize == 2

\* Callers of Close on one queue.
NumClosers == 2

\* Largest number of segments of the job whose Transcribe call is followed
\* processor by processor.
MaxEngSegs == 3

\* Segment processors of that call (segmentConcurrency).
NumProcessors == 2

\* Largest retry limit passed to TranscribeWithRetry (segmentProcessor passes 3).
MaxRetries == 3

\* Concurrent TranscribeWithRetry calls under one context.
NumRetryCallers == 2

\* Successive Get calls on one record of the hybrid store.
NumGets == 3

\* Write-back goroutines of Get outstanding at a time.
MaxWriteBacks == 1

\* Largest number of segments Split cuts one upload into.
MaxSegs == 2

\* buffer_size of the in-memory queue (cfg.Queue.BufferSize).
QueueCap == 2

\* Transcribe invocations running at a time, one per worker.
NumInvocations == 2

\* Segment length in seconds (segment_duration, 600 by default).
SegmentDuration == 2

\* Longest upload, in segment lengths.
MaxMultiple == 2

\* Largest number of cues in the response for one segment.
MaxCues == 2

\* Messages in the queue of the broker when the consumer starts.
NumDeliveries == 3

\* Failed Dequeue calls counted per worker.
MaxPolls == 2

\* Jobs waiting in the queue when the worker pool starts.
NumPoolJobs == 3

\* Segments of the job whose error message is followed.
NumErrSegs == 2

(* ------------------------- program constants -------------------------- *)

\* Worker instances started by main (default worker_pool_size).
NumWorkers == 2

\* prefetchCount of the RabbitMQ consumer.
PrefetchCount == 3

\* Every id a run can use; the run's own ids are in the variable jobs.
JobIds == 1..(IF NumJobs > NumMsgs THEN NumJobs ELSE NumMsgs)

Workers == 1..NumWorkers

\* A segment's transcription text: a sequence of tokens, empty for silence.
Texts == {<< >>, <<"a">>}

(* ---------------------------- job records ----------------------------- *)

StatusPending == "pending"

StatusProcessing == "processing"

StatusCompleted == "completed"

StatusFailed == "failed"

\* A key that holds no record.
NoJob == [status |-> "absent", progress |-> 0, result |-> << >>, error |-> "",
          completedAt |-> FALSE]

\* The record handleUpload builds: pending, progress 0, nothing else set.
NewJob == [status |-> StatusPending, progress |-> 0, result |-> << >>, error |-> "",
           completedAt |-> FALSE]

IsTerminal(r) == r.status \in {StatusCompleted, StatusFailed}

\* processJob's first mutator.
SetProcessing(r) == [r EXCEPT !.status = StatusProcessing, !.progress = 0]

\* The progress callback's mutator.
SetProgress(r, p) == [r EXCEPT !.progress = p]

\* The mutator of the failure branch.
SetFailed(r, e) == [r EXCEPT !.status = StatusFailed, !.error = e, !.completedAt = TRUE]

\* The mutator of the success branch.
SetCompleted(r, text) == [r EXCEPT !.status = StatusCompleted, !.result = text,
                                   !.progress = 100, !.completedAt = TRUE]

(* ------------------------------ engine -------------------------------- *)

RECURSIVE MergeFrom(_, _, _)
\* The loop of mergeTextResults over the sorted indices i..n-1 present in results.
MergeFrom(results, i, n) ==
    IF i >= n THEN << >>
    ELSE IF i \in DOMAIN results
         THEN (IF i > 0 THEN <<" ">> ELSE << >>) \o results[i] \o MergeFrom(results, i + 1, n)
         ELSE MergeFrom(results, i + 1, n)

RECURSIVE ConcatFrom(_, _, _)
\* The texts in ascending index with nothing between them.
ConcatFrom(results, i, n) ==
    IF i >= n THEN << >>
    ELSE IF i \in DOMAIN results
         THEN results[i] \o ConcatFrom(results, i + 1, n)
         ELSE ConcatFrom(results, i + 1, n)

\* A merge that joins the texts without a separator.
mergeWithoutSeparator(results, totalSegments) == ConcatFrom(results, 0, totalSegments)

\* mergeTextResults: the texts in ascending index, a space before every index > 0.
mergeTextResults(results, totalSegments) == MergeFrom(results, 0, totalSegments)

\* A decreasing progress: the share of the segments still to come.
RemainingOf(completedCount, totalSegments) ==
    ((totalSegments - completedCount) * 100) \div totalSegments

\* The collector's progress value after completedCount results.
ProgressOf(completedCount, totalSegments) == (completedCount * 100) \div totalSegments

(* ------------------------------- state -------------------------------- *)

VARIABLES
    \* --- the worker pool over one queue and one store (Spec) ---
    qkind,        \* "memory" (MemoryQueue) or "rabbit" (RabbitMQQueue)
    queue,        \* MemoryQueue.queue, or RabbitMQQueue.deliveriesGoChannel
    broker,       \* RabbitMQ: messages published and not yet delivered
    unacked,      \* RabbitMQ: jobs delivered to a worker and not yet acked or nacked
    qclosed,      \* the queue's Close has run
    wpc,          \* each worker's position in run / processJob
    wjob,         \* the job a worker holds, 0 for none
    cancelled,    \* Worker.ctx is cancelled (Stop was called)
    eng,          \* the Transcribe call of each worker: segments, results, count
    store,        \* JobStore.jobs
    storeClosed,  \* the store's Close has run
    mpc,          \* main's position: serving, then the shutdown sequence
    jobs,         \* ids of the uploads of this run
    uploaded,     \* ids handleUpload has handled
    enqLog,       \* history: ids in the order Enqueue accepted them
    deqLog,       \* history: ids in the order Dequeue returned them
    jlog,         \* history, per job: dequeue, terminal write, ack or nack
    jsegs,        \* history, per job: the number of segments Split returned
    heldAtSignal, \* history: jobs dequeued and unfinished when the signal came
    parked,       \* history: workers blocked in Dequeue when Close ran
    woke          \* history: what a parked worker's Dequeue call returned

VARIABLES
    \* --- concurrent callers of Store.Update on one id (SpecUpdate) ---
    ukind,        \* the store implementation: memory, redis, postgres or hybrid
    urec,         \* the record stored under the id
    upc,          \* each caller's position in Update
    uread,        \* the record a caller's Get returned
    umut          \* each caller's mutator

VARIABLES
    \* --- the hybrid store (SpecHybrid) ---
    hot,          \* the Redis tier: id -> record
    cold,         \* the PostgreSQL tier: id -> record
    syncQueue,    \* HybridJobStore.syncQueue
    batch,        \* syncWorker's batch
    spc,          \* syncWorker's position: running or returned
    hpc,          \* Close's position: open, waiting for the queue, closed
    repop,        \* per job: the row a goroutine started by Get has still to write back
    apc,          \* per job: position of the worker that processes it
    attempts,     \* per job: deliveries of its message so far
    extracted,    \* jobs whose vocabulary has been extracted and saved
    coldLog,      \* history: records written to the cold tier, with the path taken
    termLog,      \* history: records a hybrid write left in a terminal status
    newest        \* history: per id, the last terminal write and the path it took

VARIABLES
    \* --- callers of Queue.Close and of Dequeue on one queue (SpecClose) ---
    ckind,        \* "memory" or "rabbit"
    cbuf,         \* jobs waiting in the queue's Go channel
    cclosed,      \* the channel (MemoryQueue.queue, RabbitMQQueue.closed) is closed
    cpc,          \* each Close caller's position
    cdeq,         \* what each Dequeue caller has got so far
    cpanic        \* a goroutine has panicked: the process is gone

VARIABLES
    \* --- one processJob call, its Transcribe followed step by step (SpecEngine) ---
    etotal,       \* totalSegments
    etask,        \* segments taken from taskChan so far: the next index to take
    eproc,        \* each segmentProcessor: position, and the segment it holds
    eresults,     \* resultChan
    ectx,         \* the job's context is cancelled (Stop, or the 30 minute deadline)
    ecoll,        \* the collector: completedCount, results, errors
    ecalls,       \* history: the values passed to the progress callback
    eret,         \* what Transcribe returned
    erec,         \* the job's record in the store
    epc,          \* processJob's position
    esettle,      \* history: the calls processJob made on the queue
    eseg,         \* history: what each segment's processor got for it
    earrived,     \* history: every result sent on resultChan, in order
    einflight     \* history: a segment call was in flight when the context was cancelled

VARIABLES
    \* --- TranscribeWithRetry calls of one job's processors (SpecRetry) ---
    rlimit,       \* maxRetries
    ri,           \* each call's loop variable i
    rpc,          \* each call's position
    rcalls,       \* history: requests each call has sent to the remote service
    rctx,         \* the context is cancelled
    rret,         \* what each call returned
    rlive         \* history: the calls that had not returned when the context was cancelled

VARIABLES
    \* --- HybridJobStore.Get of one record, tier by tier (SpecGet) ---
    ghot,         \* the JSON the hot tier holds under the job's key, or NoData
    gcold,        \* the row the cold tier holds
    gwb,          \* the jobs the write-back goroutines started by Get still have to save
    gret,         \* history: what each Get returned, and the tier it came from
    gtries        \* history: how each write-back's save ended

VARIABLES
    \* --- Save, Get and Delete on one id of a Store (SpecStore) ---
    vkind,        \* the Store implementation main built
    vmem,         \* JobStore.jobs under the id
    vhot,         \* the JSON Redis holds under the key, or NoData
    vcold,        \* the row PostgreSQL holds for the id, or NoData
    vsync,        \* HybridJobStore.syncQueue and the batch of the sync worker
    vwb,          \* the jobs write-back goroutines of Get still have to save
    vlast,        \* history: the job of the last Save, when it returned nil and no caller has written since
    vret          \* history: the last call of a caller and what it returned

VARIABLES
    \* --- Transcribe invocations of two workers and the segment files they share (SpecSplit) ---
    fdur,         \* the duration ffprobe reports for the upload of each invocation, in half seconds
    fpc,          \* where each Transcribe invocation is
    fsegs,        \* the segments Split of each invocation has appended so far
    fres,         \* per invocation, the result of each segment the processors have handled
    fdir,         \* whether uploads/segments exists
    ffiles,       \* uploads/segments: per file segment_NNN.mp3 the invocation that wrote it last, 0 when absent
    fmade,        \* history: the invocations whose Split ran MkdirAll
    fret,         \* what each Transcribe returned
    fevents       \* history: the accesses of one invocation to a file another invocation wrote

VARIABLES
    \* --- the subtitle files of one Transcribe call (SpecSubs) ---
    bsegs,        \* the segments Split returned for the job
    bcues,        \* per segment index, the cues of the response of the transcription service
    barrived,     \* history: the segment indices in the order their results reached the collector
    bresults,     \* results of Transcribe: the responses stored so far, by segment index
    bsrt,         \* the cues written to the .srt file, or NoFile
    bvtt          \* the cues written to the .vtt file, or NoFile

VARIABLES
    \* --- workers consuming from RabbitMQQueue over a connection that may drop (SpecConsume) ---
    kbroker,      \* the messages ready in the queue at the broker
    kchan,        \* deliveriesGoChannel: the deliveries no worker has received yet
    kopen,        \* the consumer connection is up and deliveriesGoChannel is open
    kunacked,     \* the messages delivered to the process and not settled
    knacks,       \* history: the Nack calls made on the consumer channel
    kpc,          \* where each worker is in run
    kjob,         \* the job each worker holds
    kctx,         \* the context of each worker is cancelled
    kerr,         \* per worker, the Dequeue calls that found the delivery channel closed, counted up to MaxPolls
    kstore,       \* the status of the job record of each message
    klast         \* what the last Dequeue call of each worker returned

VARIABLES
    \* --- the workers of the pool and the segment processors of their jobs (SpecPool) ---
    nqueue,       \* the jobs waiting in the queue
    nheld,        \* the jobs each worker has dequeued and not finished
    ntotal,       \* per worker, totalSegments of its Transcribe call
    ntask,        \* per worker, the segments taken from taskChan so far
    nproc         \* per worker, the position of each segmentProcessor its Transcribe started

VARIABLES
    \* --- the error a job record ends with (SpecErr) ---
    oatt,         \* per segment, the errors of the attempts of its TranscribeWithRetry call so far
    ores,         \* per segment, what TranscribeWithRetry returned
    oerrors,      \* errors of Transcribe: the error of every failed result, in the order of arrival
    orec          \* the status and the error message of the job record

qvars == <<qkind, queue, broker, unacked, qclosed>>

wvars == <<wpc, wjob, cancelled, eng>>

svars == <<store, storeClosed>>

pvars == <<mpc, jobs, uploaded>>

gvars == <<enqLog, deqLog, jlog, jsegs, heldAtSignal, parked, woke>>

mvars == <<qvars, wvars, svars, pvars, gvars>>

\* The variables of the other specifications, which the worker pool leaves alone.
uvars == <<ukind, urec, upc, uread, umut>>

hvars == <<hot, cold, syncQueue, batch, spc, hpc, repop, apc, attempts, extracted,
           coldLog, termLog, newest>>

cvars == <<ckind, cbuf, cclosed, cpc, cdeq, cpanic>>

evars == <<etotal, etask, eproc, eresults, ectx, ecoll, ecalls, eret, erec, epc,
           esettle, eseg, earrived, einflight>>

rvars == <<rlimit, ri, rpc, rcalls, rctx, rret, rlive>>

tvars == <<ghot, gcold, gwb, gret, gtries>>

storevars == <<vkind, vmem, vhot, vcold, vsync, vwb, vlast, vret>>

splitvars == <<fdur, fpc, fsegs, fres, fdir, ffiles, fmade, fret, fevents>>

subsvars == <<bsegs, bcues, barrived, bresults, bsrt, bvtt>>

consumevars == <<kbroker, kchan, kopen, kunacked, knacks, kpc, kjob, kctx, kerr, kstore, klast>>

poolvars == <<nqueue, nheld, ntotal, ntask, nproc>>

errvars == <<oatt, ores, oerrors, orec>>

\* The variables of the specifications of single components.
xvars == <<cvars, evars, rvars, tvars, storevars, splitvars, subsvars, consumevars, poolvars, errvars>>

\* All the variables but those of SpecClose.
notClose == <<mvars, uvars, hvars, evars, rvars, tvars, storevars, splitvars, subsvars, consumevars, poolvars, errvars>>

\* All the variables but those of SpecEngine.
notEngine == <<mvars, uvars, hvars, cvars, rvars, tvars, storevars, splitvars, subsvars, consumevars, poolvars, errvars>>

\* All the variables but those of SpecRetry.
notRetry == <<mvars, uvars, hvars, cvars, evars, tvars, storevars, splitvars, subsvars, consumevars, poolvars, errvars>>

\* All the variables but those of SpecGet.
notGet == <<mvars, uvars, hvars, cvars, evars, rvars, storevars, splitvars, subsvars, consumevars, poolvars, errvars>>

\* All the variables but storevars.
not_store == <<mvars, uvars, hvars, cvars, evars, rvars, tvars, splitvars, subsvars, consumevars, poolvars, errvars>>

\* All the variables but splitvars.
not_split == <<mvars, uvars, hvars, cvars, evars, rvars, tvars, storevars, subsvars, consumevars, poolvars, errvars>>

\* All the variables but subsvars.
not_subs == <<mvars, uvars, hvars, cvars, evars, rvars, tvars, storevars, splitvars, consumevars, poolvars, errvars>>

\* All the variables but consumevars.
not_consume == <<mvars, uvars, hvars, cvars, evars, rvars, tvars, storevars, splitvars, subsvars, poolvars, errvars>>

\* All the variables but poolvars.
not_pool == <<mvars, uvars, hvars, cvars, evars, rvars, tvars, storevars, splitvars, subsvars, consumevars, errvars>>

\* All the variables but errvars.
not_err == <<mvars, uvars, hvars, cvars, evars, rvars, tvars, storevars, splitvars, subsvars, consumevars, poolvars>>

others == <<uvars, hvars, xvars>>

vars == <<mvars, others>>

\* A worker outside Transcribe.
NoEngine == [total |-> 0, pending |-> {}, texts |-> << >>, failed |-> FALSE,
             count |-> 0, dead |-> FALSE]

\* The process is alive: main has not returned.
Alive == mpc # "exited"

(* ------------------------------- queue -------------------------------- *)

\* An Enqueue that never finds the queue full.
AlwaysRoom == TRUE

\* Enqueue succeeds: MemoryQueue's select sends when the buffer has room;
\* RabbitMQQueue publishes while its context is not cancelled.
CanEnqueue == IF qkind = "memory" THEN Len(queue) < QueueCap ELSE ~qclosed

\* A Go channel after a send of x.
Send(q, x) == Append(q, x)

\* A channel whose receive hands the head out and leaves it in place.
ReceiveKeepsHead(q) == q

\* A Go channel after a receive.
Receive(q) == Tail(q)

\* A Dequeue call with nothing to return and nothing to report: it blocks.
DequeueBlocks ==
    /\ queue = << >>
    /\ ~qclosed

\* A Dequeue that reports nothing however the queue stands.
DequeueNeverFails == FALSE

\* Dequeue returns an error: the closed and drained channel of MemoryQueue; the
\* closed signal, the cancelled context or the closed delivery channel of
\* RabbitMQQueue.
DequeueFails ==
    /\ qclosed
    /\ queue = << >>

\* Dequeue returns the job at the head of the channel.
DequeueTakes == queue # << >>

\* Ack and Nack of RabbitMQQueue settle the delivery at the broker; those of
\* MemoryQueue do nothing. On a closed consumer channel the call returns an
\* error, which the worker logs.
Settle(j) == IF qkind = "rabbit" /\ ~qclosed THEN unacked \ {j} ELSE unacked

\* RabbitMQ pushes a published message to the consumer while the number of
\* unacknowledged deliveries is below the prefetch count.
BrokerDeliver ==
    /\ qkind = "rabbit"
    /\ ~qclosed
    /\ Alive
    /\ broker # << >>
    /\ Cardinality(unacked) + Len(queue) < PrefetchCount
    /\ queue' = Send(queue, Head(broker))
    /\ broker' = Tail(broker)
    /\ UNCHANGED <<qkind, unacked, qclosed, wvars, svars, pvars, gvars, others>>

(* --------------------------- upload handler --------------------------- *)

\* handleUpload: Save the pending job, then Enqueue it. A queue that refuses the
\* job leaves it pending in the store.
handleUpload(j) ==
    /\ mpc = "serving"
    /\ j \in jobs \ uploaded
    /\ uploaded' = uploaded \cup {j}
    /\ store' = [store EXCEPT ![j] = NewJob]
    /\ IF CanEnqueue
       THEN /\ enqLog' = Append(enqLog, j)
            /\ IF qkind = "memory"
               THEN queue' = Send(queue, j) /\ UNCHANGED broker
               ELSE broker' = Append(broker, j) /\ UNCHANGED queue
       ELSE UNCHANGED <<queue, enqLog, broker>>
    /\ UNCHANGED <<qkind, unacked, qclosed, wvars, storeClosed, mpc, jobs, deqLog, jlog,
                   jsegs, heldAtSignal, parked, woke, others>>

(* ------------------------------- worker ------------------------------- *)

\* run, top of the loop: a cancelled worker returns, another calls Dequeue.
WorkerCheck(w) ==
    /\ Alive
    /\ wpc[w] = "check"
    /\ wpc' = [wpc EXCEPT ![w] = IF cancelled[w] THEN "stopped" ELSE "dequeue"]
    /\ UNCHANGED <<qvars, wjob, cancelled, eng, svars, pvars, gvars, others>>

\* What a worker parked at Close learns from its Dequeue call.
Woken(w, what) == IF w \in parked /\ woke[w] = "none"
                  THEN [woke EXCEPT ![w] = what] ELSE woke

\* Dequeue returns a job: the worker owns it and enters processJob.
WorkerDequeue(w) ==
    /\ Alive
    /\ wpc[w] = "dequeue"
    /\ DequeueTakes
    /\ LET j == Head(queue) IN
        /\ queue' = Receive(queue)
        /\ unacked' = IF qkind = "rabbit" THEN unacked \cup {j} ELSE unacked
        /\ wjob' = [wjob EXCEPT ![w] = j]
        /\ deqLog' = Append(deqLog, j)
        /\ jlog' = [jlog EXCEPT ![j] = Append(@, "dequeue")]
    /\ wpc' = [wpc EXCEPT ![w] = "begin"]
    /\ woke' = Woken(w, "job")
    /\ UNCHANGED <<qkind, broker, qclosed, cancelled, eng, svars, pvars, enqLog, jsegs,
                   heldAtSignal, parked, others>>

\* Dequeue returns an error: the worker logs it, sleeps one second and loops.
WorkerDequeueError(w) ==
    /\ Alive
    /\ wpc[w] = "dequeue"
    /\ DequeueFails
    /\ wpc' = [wpc EXCEPT ![w] = "check"]
    /\ woke' = Woken(w, "closed")
    /\ UNCHANGED <<qvars, wjob, cancelled, eng, svars, pvars, enqLog, deqLog, jlog,
                   jsegs, heldAtSignal, parked, others>>

\* processJob: status processing, progress 0; then Transcribe, whose Split cuts
\* the upload into n segments and whose processors start. A context already
\* cancelled fails every segment.
BeginProcessing(w, n) ==
    /\ Alive
    /\ wpc[w] = "begin"
    /\ store' = [store EXCEPT ![wjob[w]] = SetProcessing(@)]
    /\ eng' = [eng EXCEPT ![w] = [total |-> n, pending |-> 0..(n - 1), texts |-> << >>,
                                   failed |-> FALSE, count |-> 0, dead |-> cancelled[w]]]
    /\ wpc' = [wpc EXCEPT ![w] = "collect"]
    /\ jsegs' = [jsegs EXCEPT ![wjob[w]] = n]
    /\ UNCHANGED <<qvars, wjob, cancelled, storeClosed, pvars, enqLog, deqLog, jlog,
                   heldAtSignal, parked, woke, others>>

\* processJob: status processing, progress 0; then Transcribe, whose Split fails:
\* Transcribe returns the error at once.
BeginSplitFails(w) ==
    /\ Alive
    /\ wpc[w] = "begin"
    /\ store' = [store EXCEPT ![wjob[w]] = SetProcessing(@)]
    /\ eng' = [eng EXCEPT ![w] = [NoEngine EXCEPT !.failed = TRUE]]
    /\ wpc' = [wpc EXCEPT ![w] = "collect"]
    /\ UNCHANGED <<qvars, wjob, cancelled, storeClosed, pvars, gvars, others>>

\* The collector of Transcribe after one more result: the count, and the
\* progress callback's write through the store.
Collected(w, e) ==
    /\ eng' = [eng EXCEPT ![w] = e]
    /\ store' = [store EXCEPT ![wjob[w]] = SetProgress(@, ProgressOf(e.count, e.total))]

\* The collector receives the text of segment idx.
CollectText(w, idx, text) ==
    /\ Alive
    /\ wpc[w] = "collect"
    /\ idx \in eng[w].pending
    /\ ~eng[w].dead
    /\ Collected(w, [eng[w] EXCEPT !.pending = @ \ {idx},
                                   !.texts = (idx :> text) @@ @,
                                   !.count = @ + 1])
    /\ UNCHANGED <<qvars, wpc, wjob, cancelled, storeClosed, pvars, gvars, others>>

\* The collector receives the error of segment idx: the retries are used up, or
\* the context is cancelled.
CollectError(w, idx) ==
    /\ Alive
    /\ wpc[w] = "collect"
    /\ idx \in eng[w].pending
    /\ Collected(w, [eng[w] EXCEPT !.pending = @ \ {idx},
                                   !.failed = TRUE,
                                   !.count = @ + 1])
    /\ UNCHANGED <<qvars, wpc, wjob, cancelled, storeClosed, pvars, gvars, others>>

\* Transcribe has returned: every processor is done and the result channel is
\* closed.
EngineReturned(w) ==
    /\ wpc[w] = "collect"
    /\ eng[w].pending = {}

\* The text Transcribe returns: the merged texts of all the segments.
ResultText(w) == mergeTextResults(eng[w].texts, eng[w].total)

\* A terminal write that leaves the record as it was.
KeepsRecord(r, w) == r

\* The record processJob writes when Transcribe returned an error.
FailedWrite(r, w) == SetFailed(r, "error")

\* The record processJob writes when Transcribe returned a result.
CompletedWrite(r, w) == SetCompleted(r, ResultText(w))

\* processJob, failure: Transcribe returned an error; status failed.
WriteFailed(w) ==
    /\ Alive
    /\ EngineReturned(w)
    /\ eng[w].failed
    /\ store' = [store EXCEPT ![wjob[w]] = FailedWrite(@, w)]
    /\ jlog' = [jlog EXCEPT ![wjob[w]] = Append(@, "failed")]
    /\ eng' = [eng EXCEPT ![w] = NoEngine]
    /\ wpc' = [wpc EXCEPT ![w] = "nack"]
    /\ UNCHANGED <<qvars, wjob, cancelled, storeClosed, pvars, enqLog, deqLog, jsegs,
                   heldAtSignal, parked, woke, others>>

\* processJob, success: Transcribe returned the text; status completed.
WriteCompleted(w) ==
    /\ Alive
    /\ EngineReturned(w)
    /\ ~eng[w].failed
    /\ store' = [store EXCEPT ![wjob[w]] = CompletedWrite(@, w)]
    /\ jlog' = [jlog EXCEPT ![wjob[w]] = Append(@, "completed")]
    /\ eng' = [eng EXCEPT ![w] = NoEngine]
    /\ wpc' = [wpc EXCEPT ![w] = "ack"]
    /\ UNCHANGED <<qvars, wjob, cancelled, storeClosed, pvars, enqLog, deqLog, jsegs,
                   heldAtSignal, parked, woke, others>>

\* A Nack that asks the broker to requeue.
NackRequeueCall == "nack_requeue"

\* The call processJob makes after the failure write: Nack with requeue false.
NackCall == "nack"

\* The call processJob makes after the success write: Ack.
AckCall == "ack"

\* processJob calls the queue once and returns to run.
Acknowledge(w, call) ==
    /\ unacked' = Settle(wjob[w])
    /\ jlog' = [jlog EXCEPT ![wjob[w]] = Append(@, call)]
    /\ wjob' = [wjob EXCEPT ![w] = 0]
    /\ wpc' = [wpc EXCEPT ![w] = "check"]

\* processJob, failure: Nack without requeue.
NackJob(w) ==
    /\ Alive
    /\ wpc[w] = "nack"
    /\ Acknowledge(w, NackCall)
    /\ UNCHANGED <<qkind, queue, broker, qclosed, cancelled, eng, svars, pvars, enqLog,
                   deqLog, jsegs, heldAtSignal, parked, woke, others>>

\* processJob, success: Ack.
AckJob(w) ==
    /\ Alive
    /\ wpc[w] = "ack"
    /\ Acknowledge(w, AckCall)
    /\ UNCHANGED <<qkind, queue, broker, qclosed, cancelled, eng, svars, pvars, enqLog,
                   deqLog, jsegs, heldAtSignal, parked, woke, others>>

(* ------------------------------ shutdown ------------------------------ *)

\* Jobs a worker has dequeued and not finished.
Held == {wjob[w] : w \in Workers} \ {0}

\* main receives SIGINT or SIGTERM and shuts the HTTP server down.
ShutdownSignal ==
    /\ mpc = "serving"
    /\ mpc' = "stopWorkers"
    /\ heldAtSignal' = Held
    /\ UNCHANGED <<qvars, wvars, svars, jobs, uploaded, enqLog, deqLog, jlog, jsegs,
                   parked, woke, others>>

\* Worker.Stop cancels the worker's context and returns.
Stop(w, c) == [c EXCEPT ![w] = TRUE]

RECURSIVE StopAll(_, _)
\* main's loop over app.workers: Stop for each worker in turn.
StopAll(i, c) == IF i > NumWorkers THEN c ELSE StopAll(i + 1, Stop(i, c))

\* main stops the worker pool.
StopWorkers ==
    /\ mpc = "stopWorkers"
    /\ cancelled' = StopAll(1, cancelled)
    /\ mpc' = "closeQueue"
    /\ UNCHANGED <<qvars, wpc, wjob, eng, svars, jobs, uploaded, gvars, others>>

\* Queue.Close. MemoryQueue closes its channel, whose buffered jobs stay
\* receivable. RabbitMQQueue closes the closed signal, cancels its context and
\* closes the consumer channel: deliveries not yet taken are gone.
CloseQueue ==
    /\ mpc = "closeQueue"
    /\ parked' = {w \in Workers : wpc[w] = "dequeue" /\ DequeueBlocks}
    /\ qclosed' = TRUE
    /\ queue' = IF qkind = "rabbit" THEN << >> ELSE queue
    /\ mpc' = "closeStore"
    /\ UNCHANGED <<qkind, broker, unacked, wvars, svars, jobs, uploaded, enqLog, deqLog,
                   jlog, jsegs, heldAtSignal, woke, others>>

\* Store.Close, after which main returns: the process ends, and with it every
\* goroutine.
CloseStore ==
    /\ mpc = "closeStore"
    /\ storeClosed' = TRUE
    /\ mpc' = "exited"
    /\ UNCHANGED <<qvars, wvars, store, jobs, uploaded, gvars, others>>

(* --------------------------- specification ---------------------------- *)

\* The variables of SpecUpdate while another specification runs.
UpdateIdle ==
    /\ ukind = "memory"
    /\ urec = NoJob
    /\ upc = << >>
    /\ uread = << >>
    /\ umut = << >>

\* The variables of SpecHybrid while another specification runs.
HybridIdle ==
    /\ hot = << >>
    /\ cold = << >>
    /\ syncQueue = << >>
    /\ batch = << >>
    /\ spc = "idle"
    /\ hpc = "idle"
    /\ repop = << >>
    /\ apc = << >>
    /\ attempts = << >>
    /\ extracted = {}
    /\ coldLog = {}
    /\ termLog = {}
    /\ newest = [j \in 1..NumHybridJobs |-> [rec |-> NoJob, via |-> "none"]]

\* The variables of SpecClose while another specification runs.
CloseIdle ==
    /\ ckind = "memory"
    /\ cbuf = 0
    /\ cclosed = FALSE
    /\ cpc = << >>
    /\ cdeq = << >>
    /\ cpanic = FALSE

\* Transcribe before it is called.
NotReturned == [kind |-> "running", text |-> << >>, idx |-> 0]

\* The collector before the first result.
NoResults == [count |-> 0, texts |-> << >>, errors |-> << >>]

\* The variables of SpecEngine while another specification runs.
EngineIdle ==
    /\ etotal = 0
    /\ etask = 0
    /\ eproc = << >>
    /\ eresults = << >>
    /\ ectx = FALSE
    /\ ecoll = NoResults
    /\ ecalls = << >>
    /\ eret = NotReturned
    /\ erec = NoJob
    /\ epc = "idle"
    /\ esettle = << >>
    /\ eseg = << >>
    /\ earrived = << >>
    /\ einflight = FALSE

\* The variables of SpecRetry while another specification runs.
RetryIdle ==
    /\ rlimit = 0
    /\ ri = << >>
    /\ rpc = << >>
    /\ rcalls = << >>
    /\ rctx = FALSE
    /\ rret = << >>
    /\ rlive = {}

\* No value under the job's key in the hot tier.
NoData == [status |-> "absent"]

\* The variables of SpecGet while another specification runs.
GetIdle ==
    /\ ghot = NoData
    /\ gcold = NoData
    /\ gwb = << >>
    /\ gret = << >>
    /\ gtries = << >>

\* No call made yet.
NoCall == [op |-> "none", ok |-> TRUE, job |-> NoData]

\* The variables of SpecStore while another specification runs.
StoreIdle ==
    /\ vkind = "memory"
    /\ vmem = NoData
    /\ vhot = NoData
    /\ vcold = NoData
    /\ vsync = << >>
    /\ vwb = << >>
    /\ vlast = NoData
    /\ vret = NoCall

SplitIdle ==
    /\ fdur = [i \in {} |-> 0]
    /\ fpc = [i \in {} |-> "done"]
    /\ fsegs = [i \in {} |-> << >>]
    /\ fres = [i \in {} |-> << >>]
    /\ fdir = FALSE
    /\ ffiles = [k \in {} |-> 0]
    /\ fmade = {}
    /\ fret = [i \in {} |-> "none"]
    /\ fevents = {}

SubsIdle ==
    /\ bsegs = << >>
    /\ bcues = << >>
    /\ barrived = << >>
    /\ bresults = << >>
    /\ bsrt = [state |-> "none", cues |-> << >>]
    /\ bvtt = [state |-> "none", cues |-> << >>]

ConsumeIdle ==
    /\ kbroker = << >>
    /\ kchan = << >>
    /\ kopen = FALSE
    /\ kunacked = {}
    /\ knacks = {}
    /\ kpc = [w \in {} |-> "stopped"]
    /\ kjob = [w \in {} |-> 0]
    /\ kctx = [w \in {} |-> TRUE]
    /\ kerr = [w \in {} |-> 0]
    /\ kstore = [j \in {} |-> "absent"]
    /\ klast = [w \in {} |-> "none"]

PoolIdle ==
    /\ nqueue = << >>
    /\ nheld = [w \in {} |-> {}]
    /\ ntotal = [w \in {} |-> 0]
    /\ ntask = [w \in {} |-> 0]
    /\ nproc = [w \in {} |-> << >>]

ErrIdle ==
    /\ oatt = << >>
    /\ ores = << >>
    /\ oerrors = << >>
    /\ orec = [status |-> "absent", error |-> << >>]

\* The variables of the single-component specifications while another runs.
LaterIdle == CloseIdle /\ EngineIdle /\ RetryIdle /\ GetIdle /\ StoreIdle /\ SplitIdle /\ SubsIdle /\ ConsumeIdle /\ PoolIdle /\ ErrIdle

\* The server after main has built the queue, the store and the workers.
Started ==
    /\ qkind \in {"memory", "rabbit"}
    /\ queue = << >>
    /\ broker = << >>
    /\ unacked = {}
    /\ qclosed = FALSE
    /\ wpc = [w \in Workers |-> "check"]
    /\ wjob = [w \in Workers |-> 0]
    /\ cancelled = [w \in Workers |-> FALSE]
    /\ eng = [w \in Workers |-> NoEngine]
    /\ store = [j \in JobIds |-> NoJob]
    /\ storeClosed = FALSE
    /\ mpc = "serving"
    /\ uploaded = {}
    /\ enqLog = << >>
    /\ deqLog = << >>
    /\ jlog = [j \in JobIds |-> << >>]
    /\ jsegs = [j \in JobIds |-> 0]
    /\ heldAtSignal = {}
    /\ parked = {}
    /\ woke = [w \in Workers |-> "none"]

Init ==
    /\ Started
    /\ jobs = 1..NumJobs
    /\ UpdateIdle
    /\ HybridIdle
    /\ LaterIdle

Next ==
    \/ \E j \in JobIds : handleUpload(j)
    \/ BrokerDeliver
    \/ \E w \in Workers : WorkerCheck(w)
    \/ \E w \in Workers : WorkerDequeue(w)
    \/ \E w \in Workers : WorkerDequeueError(w)
    \/ \E w \in Workers, n \in 1..MaxSegs : BeginProcessing(w, n)
    \/ \E w \in Workers : BeginSplitFails(w)
    \/ \E w \in Workers, idx \in 0..(MaxSegs - 1), text \in Texts : CollectText(w, idx, text)
    \/ \E w \in Workers, idx \in 0..(MaxSegs - 1) : CollectError(w, idx)
    \/ \E w \in Workers : WriteFailed(w)
    \/ \E w \in Workers : WriteCompleted(w)
    \/ \E w \in Workers : NackJob(w)
    \/ \E w \in Workers : AckJob(w)
    \/ ShutdownSignal
    \/ StopWorkers
    \/ CloseQueue
    \/ CloseStore

Spec == Init /\ [][Next]_vars

\* One step of worker w's goroutine: run's loop and processJob with the engine
\* it calls.
WorkerRun(w) ==
    \/ WorkerCheck(w)
    \/ WorkerDequeue(w)
    \/ WorkerDequeueError(w)
    \/ \E n \in 1..MaxSegs : BeginProcessing(w, n)
    \/ BeginSplitFails(w)
    \/ \E idx \in 0..(MaxSegs - 1), text \in Texts : CollectText(w, idx, text)
    \/ \E idx \in 0..(MaxSegs - 1) : CollectError(w, idx)
    \/ WriteFailed(w)
    \/ WriteCompleted(w)
    \/ NackJob(w)
    \/ AckJob(w)

\* The server with one upload, for the shutdown under fair scheduling.
InitDrain ==
    /\ Started
    /\ jobs = 1..NumDrainJobs
    /\ UpdateIdle
    /\ HybridIdle
    /\ LaterIdle

SpecDrain == InitDrain /\ [][Next]_vars

\* Each worker goroutine is scheduled while the process lives, and every remote
\* call returns: a worker step that stays possible is taken in the end.
SpecDrainFair == SpecDrain /\ \A w \in Workers : WF_vars(WorkerRun(w))

\* The server while it runs with the in-memory queue: uploads arrive and the
\* workers process them; no signal reaches main.
InitServe ==
    /\ Init
    /\ qkind = "memory"

NextServe ==
    \/ \E j \in JobIds : handleUpload(j)
    \/ \E w \in Workers : WorkerCheck(w)
    \/ \E w \in Workers : WorkerDequeue(w)
    \/ \E w \in Workers, n \in 1..MaxSegs : BeginProcessing(w, n)
    \/ \E w \in Workers : BeginSplitFails(w)
    \/ \E w \in Workers, idx \in 0..(MaxSegs - 1), text \in Texts : CollectText(w, idx, text)
    \/ \E w \in Workers, idx \in 0..(MaxSegs - 1) : CollectError(w, idx)
    \/ \E w \in Workers : WriteFailed(w)
    \/ \E w \in Workers : WriteCompleted(w)
    \/ \E w \in Workers : NackJob(w)
    \/ \E w \in Workers : AckJob(w)

SpecServe == InitServe /\ [][NextServe]_vars

\* Each worker goroutine is scheduled, and every remote call returns.
SpecServeFair == SpecServe /\ \A w \in Workers : WF_vars(WorkerRun(w))

(* ---------------- the queue under the worker pool (SpecQueue) ---------------- *)

\* processJob as one step: the processing write, Transcribe with its outcome ok,
\* the terminal write, then Ack or Nack.
processJob(w, ok) ==
    /\ Alive
    /\ wpc[w] = "begin"
    /\ LET j == wjob[w] IN
        /\ store' = [store EXCEPT ![j] = IF ok THEN SetCompleted(SetProcessing(@), <<"a">>)
                                          ELSE SetFailed(SetProcessing(@), "error")]
        /\ jlog' = [jlog EXCEPT ![j] = @ \o (IF ok THEN <<"completed", AckCall>>
                                             ELSE <<"failed", NackCall>>)]
        /\ jsegs' = [jsegs EXCEPT ![j] = 1]
        /\ unacked' = Settle(j)
    /\ wjob' = [wjob EXCEPT ![w] = 0]
    /\ wpc' = [wpc EXCEPT ![w] = "check"]
    /\ UNCHANGED <<qkind, queue, broker, qclosed, cancelled, eng, storeClosed, pvars,
                   enqLog, deqLog, heldAtSignal, parked, woke, others>>

InitQueue ==
    /\ Started
    /\ jobs = 1..NumMsgs
    /\ UpdateIdle
    /\ HybridIdle
    /\ LaterIdle

NextQueue ==
    \/ \E j \in JobIds : handleUpload(j)
    \/ BrokerDeliver
    \/ \E w \in Workers : WorkerCheck(w)
    \/ \E w \in Workers : WorkerDequeue(w)
    \/ \E w \in Workers : WorkerDequeueError(w)
    \/ \E w \in Workers, ok \in BOOLEAN : processJob(w, ok)
    \/ ShutdownSignal
    \/ StopWorkers
    \/ CloseQueue
    \/ CloseStore

SpecQueue == InitQueue /\ [][NextQueue]_vars

(* ------------- concurrent Store.Update on one id (SpecUpdate) ------------- *)

Callers == 1..NumCallers

\* The Store implementations main can build.
StoreKinds == {"memory", "redis", "postgres", "hybrid"}

\* The mutators the worker passes to Update.
Mutators == {"processing", "progress", "failed", "completed"}

\* updateFn(job): the mutator m applied to the record r.
Apply(m, r) ==
    CASE m = "processing" -> SetProcessing(r)
      [] m = "progress"   -> SetProgress(r, 50)
      [] m = "failed"     -> SetFailed(r, "error")
      [] m = "completed"  -> SetCompleted(r, <<"a">>)

\* The worker pool's variables while another specification runs.
MainIdle ==
    /\ Started
    /\ qkind = "memory"
    /\ jobs = {}

\* A caller's Get inside Update: it keeps what the store holds now.
UpdateGet(c) ==
    /\ upc[c] = "call"
    /\ uread' = [uread EXCEPT ![c] = urec]
    /\ upc' = [upc EXCEPT ![c] = "save"]
    /\ UNCHANGED <<ukind, urec, umut, mvars, hvars, xvars>>

\* A caller's Save inside Update: the mutator applied to what its Get returned.
UpdateSave(c) ==
    /\ upc[c] = "save"
    /\ urec' = Apply(umut[c], uread[c])
    /\ upc' = [upc EXCEPT ![c] = "done"]
    /\ UNCHANGED <<ukind, uread, umut, mvars, hvars, xvars>>

\* JobStore.Update: lookup and mutator under the store's mutex, one step.
JobStoreUpdate(c) ==
    /\ ukind = "memory"
    /\ upc[c] = "call"
    /\ urec' = Apply(umut[c], urec)
    /\ upc' = [upc EXCEPT ![c] = "done"]
    /\ UNCHANGED <<ukind, uread, umut, mvars, hvars, xvars>>

\* RedisJobStore.Update, first half: Get. HybridJobStore.Update calls it for its
\* hot tier.
RedisUpdateGet(c) ==
    /\ ukind \in {"redis", "hybrid"}
    /\ UpdateGet(c)

\* RedisJobStore.Update, second half: updateFn and Save.
RedisUpdateSave(c) ==
    /\ ukind \in {"redis", "hybrid"}
    /\ UpdateSave(c)

\* PostgresJobStore.Update, first half: Get.
PostgresUpdateGet(c) ==
    /\ ukind = "postgres"
    /\ UpdateGet(c)

\* PostgresJobStore.Update, second half: updateFn and Save.
PostgresUpdateSave(c) ==
    /\ ukind = "postgres"
    /\ UpdateSave(c)

InitUpdate ==
    /\ MainIdle
    /\ HybridIdle
    /\ LaterIdle
    /\ ukind \in StoreKinds
    /\ urec = NewJob
    /\ upc = [c \in Callers |-> "call"]
    /\ uread = [c \in Callers |-> NoJob]
    /\ umut \in [Callers -> Mutators]

NextUpdate ==
    \/ \E c \in Callers : JobStoreUpdate(c)
    \/ \E c \in Callers : RedisUpdateGet(c)
    \/ \E c \in Callers : RedisUpdateSave(c)
    \/ \E c \in Callers : PostgresUpdateGet(c)
    \/ \E c \in Callers : PostgresUpdateSave(c)

SpecUpdate == InitUpdate /\ [][NextUpdate]_vars

(* ---------------------- the hybrid store (SpecHybrid) ---------------------- *)

\* The hot tier may fail or miss on any call (hotOk, getOk); the cold tier
\* answers until Close has closed it. The callers of the store (upload handler,
\* worker, vocabulary handler) make their calls while the store is open.

HJobs == 1..NumHybridJobs

\* A record with its id, as it travels through syncQueue and the batch.
Item(j, r) == [id |-> j, rec |-> r]

\* A store that hands every record to asyncSyncToDB.
SyncAlways(r) == TRUE

\* A ticker case that never flushes.
FlushNever(b) == FALSE

\* Save and Update hand a record to asyncSyncToDB when its status is completed
\* or failed.
SyncWanted(r) == IsTerminal(r)

\* The ticker case of syncWorker flushes a batch that is not empty.
FlushDue(b) == Len(b) > 0

\* The cold tier after db.Save(x): PostgresJobStore.Save is an upsert by id. Once
\* Close has closed the tiers a write reaches nothing.
ColdAfter(c, x) == IF hpc = "closed" THEN c ELSE [c EXCEPT ![x.id] = x.rec]

\* The history of cold writes after db.Save(x) on the path via.
LogAfter(log, x, via) ==
    IF hpc = "closed" THEN log ELSE log \cup {[id |-> x.id, rec |-> x.rec, via |-> via]}

RECURSIVE ColdAfterBatch(_, _)
\* batchSave: db.Save for each record of the batch, in order.
ColdAfterBatch(c, b) ==
    IF b = << >> THEN c ELSE ColdAfterBatch(ColdAfter(c, Head(b)), Tail(b))

RECURSIVE LogAfterBatch(_, _, _)
\* The history of cold writes after batchSave.
LogAfterBatch(log, b, via) ==
    IF b = << >> THEN log ELSE LogAfterBatch(LogAfter(log, Head(b), via), Tail(b), via)

\* A hybrid write that touches neither syncQueue nor the cold tier.
NoSync == UNCHANGED <<syncQueue, cold, coldLog>>

\* No terminal write yet.
NoVersion == [rec |-> NoJob, via |-> "none"]

\* The path asyncSyncToDB takes now: the queue, or db.Save when the queue is full.
SyncPath == IF Len(syncQueue) < SyncQueueCap THEN "queue" ELSE "full"

\* The history of last terminal writes after record r of id j went the path via.
Newest(j, r, via) == [newest EXCEPT ![j] = [rec |-> r, via |-> via]]

\* A send that gives the record up when syncQueue is full.
asyncOrDrop(x) ==
    IF Len(syncQueue) < SyncQueueCap
    THEN /\ syncQueue' = Append(syncQueue, x)
         /\ UNCHANGED <<cold, coldLog>>
    ELSE UNCHANGED <<syncQueue, cold, coldLog>>

\* asyncSyncToDB: a non-blocking send to syncQueue; when the queue is full, a
\* synchronous db.Save.
asyncSyncToDB(x) ==
    IF Len(syncQueue) < SyncQueueCap
    THEN /\ syncQueue' = Append(syncQueue, x)
         /\ UNCHANGED <<cold, coldLog>>
    ELSE /\ cold' = ColdAfter(cold, x)
         /\ coldLog' = LogAfter(coldLog, x, "full")
         /\ UNCHANGED syncQueue

\* HybridJobStore.Save(r) for id j: the hot write, which may fail, then
\* asyncSyncToDB for a terminal record.
HybridSave(j, r, hotOk) ==
    /\ hot' = IF hotOk THEN [hot EXCEPT ![j] = r] ELSE hot
    /\ IF SyncWanted(r)
       THEN /\ asyncSyncToDB(Item(j, r))
            /\ termLog' = termLog \cup {[id |-> j, rec |-> r, readback |-> TRUE]}
            /\ newest' = Newest(j, r, SyncPath)
       ELSE NoSync /\ UNCHANGED <<termLog, newest>>

\* HybridJobStore.Update(j, m). redis.Update succeeds when the hot tier answers
\* and holds the id: then the record is read back, and handed to asyncSyncToDB
\* when the read succeeds and the record is terminal. When redis.Update fails
\* the call is db.Update, which fails in turn when the cold tier has no row.
HybridUpdate(j, m, hotOk, getOk) ==
    IF hotOk /\ hot[j] # NoJob
    THEN LET r == Apply(m, hot[j]) IN
         /\ hot' = [hot EXCEPT ![j] = r]
         /\ termLog' = IF IsTerminal(r)
                       THEN termLog \cup {[id |-> j, rec |-> r, readback |-> getOk]}
                       ELSE termLog
         /\ newest' = IF IsTerminal(r)
                      THEN Newest(j, r, IF getOk THEN SyncPath ELSE "unsynced")
                      ELSE newest
         /\ IF getOk /\ SyncWanted(r) THEN asyncSyncToDB(Item(j, r)) ELSE NoSync
    ELSE /\ UNCHANGED <<hot, syncQueue>>
         /\ IF cold[j] # NoJob
            THEN LET r == Apply(m, cold[j]) IN
                 /\ cold' = ColdAfter(cold, Item(j, r))
                 /\ coldLog' = LogAfter(coldLog, Item(j, r), "fallback")
                 /\ termLog' = IF IsTerminal(r)
                               THEN termLog \cup {[id |-> j, rec |-> r, readback |-> TRUE]}
                               ELSE termLog
                 /\ newest' = IF IsTerminal(r) THEN Newest(j, r, "fallback") ELSE newest
            ELSE UNCHANGED <<cold, coldLog, termLog, newest>>

\* handleUpload on the hybrid store: Save the pending job; the job is enqueued.
HybridUpload(j, hotOk) ==
    /\ hpc = "open"
    /\ apc[j] = "none"
    /\ HybridSave(j, NewJob, hotOk)
    /\ apc' = [apc EXCEPT ![j] = "queued"]
    /\ UNCHANGED <<batch, spc, hpc, repop, attempts, extracted, mvars, uvars, xvars>>

\* A worker dequeues the job's message.
HybridDequeue(j) ==
    /\ hpc = "open"
    /\ apc[j] = "queued"
    /\ apc' = [apc EXCEPT ![j] = "begin"]
    /\ attempts' = [attempts EXCEPT ![j] = @ + 1]
    /\ UNCHANGED <<hot, cold, syncQueue, batch, spc, hpc, repop, extracted, coldLog,
                   termLog, newest, mvars, uvars, xvars>>

\* processJob's first write: status processing, progress 0.
HybridProcessing(j, hotOk) ==
    /\ hpc = "open"
    /\ apc[j] = "begin"
    /\ HybridUpdate(j, "processing", hotOk, TRUE)
    /\ apc' = [apc EXCEPT ![j] = "running"]
    /\ UNCHANGED <<batch, spc, hpc, repop, attempts, extracted, mvars, uvars, xvars>>

\* processJob's terminal write: completed or failed.
HybridTerminal(j, m, hotOk, getOk) ==
    /\ hpc = "open"
    /\ apc[j] = "running"
    /\ m \in {"completed", "failed"}
    /\ HybridUpdate(j, m, hotOk, getOk)
    /\ apc' = [apc EXCEPT ![j] = "written"]
    /\ UNCHANGED <<batch, spc, hpc, repop, attempts, extracted, mvars, uvars, xvars>>

\* Ack, or Nack without requeue: the broker drops the message.
HybridSettle(j) ==
    /\ apc[j] = "written"
    /\ apc' = [apc EXCEPT ![j] = "done"]
    /\ UNCHANGED <<hot, cold, syncQueue, batch, spc, hpc, repop, attempts, extracted,
                   coldLog, termLog, newest, mvars, uvars, xvars>>

\* The consumer is gone before the ack reaches the broker (processJob only logs a
\* failed Ack): the broker requeues the unacknowledged message.
HybridRedeliver(j) ==
    /\ hpc = "open"
    /\ apc[j] = "written"
    /\ attempts[j] < MaxDeliveries
    /\ apc' = [apc EXCEPT ![j] = "queued"]
    /\ UNCHANGED <<hot, cold, syncQueue, batch, spc, hpc, repop, attempts, extracted,
                   coldLog, termLog, newest, mvars, uvars, xvars>>

\* HybridJobStore.Get on a hot miss or failure with the row in the cold tier: it
\* starts a goroutine that saves the row back to the hot tier.
HybridGetMiss(j) ==
    /\ hpc = "open"
    /\ cold[j] # NoJob
    /\ repop[j] = NoJob
    /\ repop' = [repop EXCEPT ![j] = cold[j]]
    /\ UNCHANGED <<hot, cold, syncQueue, batch, spc, hpc, apc, attempts, extracted,
                   coldLog, termLog, newest, mvars, uvars, xvars>>

\* The goroutine started by Get: redis.Save of the row it was given.
HybridRepopulate(j, hotOk) ==
    /\ repop[j] # NoJob
    /\ repop' = [repop EXCEPT ![j] = NoJob]
    /\ hot' = IF hotOk /\ hpc # "closed" THEN [hot EXCEPT ![j] = repop[j]] ELSE hot
    /\ UNCHANGED <<cold, syncQueue, batch, spc, hpc, apc, attempts, extracted, coldLog,
                   termLog, newest, mvars, uvars, xvars>>

\* handleExtractVocabulary: Get from the hot tier, a completed job with a result,
\* then Save of the job with its vocabulary.
HybridExtract(j, hotOk) ==
    /\ hpc = "open"
    /\ j \notin extracted
    /\ hot[j].status = StatusCompleted
    /\ hot[j].result # << >>
    /\ HybridSave(j, hot[j], hotOk)
    /\ extracted' = extracted \cup {j}
    /\ UNCHANGED <<batch, spc, hpc, repop, apc, attempts, mvars, uvars, xvars>>

\* syncWorker, the syncQueue case: the record joins the batch, which is flushed
\* by batchSave when it has reached the batch size.
SyncTake ==
    /\ spc = "running"
    /\ syncQueue # << >>
    /\ syncQueue' = Tail(syncQueue)
    /\ LET b == Append(batch, Head(syncQueue)) IN
        IF Len(b) >= BatchSize
        THEN /\ cold' = ColdAfterBatch(cold, b)
             /\ coldLog' = LogAfterBatch(coldLog, b, "batch")
             /\ batch' = << >>
        ELSE /\ batch' = b
             /\ UNCHANGED <<cold, coldLog>>
    /\ UNCHANGED <<hot, spc, hpc, repop, apc, attempts, extracted, termLog, newest, mvars, uvars, xvars>>

\* syncWorker, the ticker case: every five seconds a batch that is not empty is
\* flushed.
SyncTick ==
    /\ spc = "running"
    /\ FlushDue(batch)
    /\ cold' = ColdAfterBatch(cold, batch)
    /\ coldLog' = LogAfterBatch(coldLog, batch, "tick")
    /\ batch' = << >>
    /\ UNCHANGED <<hot, syncQueue, spc, hpc, repop, apc, attempts, extracted, termLog, newest,
                   mvars, uvars, xvars>>

\* syncWorker, the stopCh case: batchSave of the batch, then return. What is
\* still in syncQueue stays there.
SyncStop ==
    /\ spc = "running"
    /\ hpc # "open"
    /\ cold' = ColdAfterBatch(cold, batch)
    /\ coldLog' = LogAfterBatch(coldLog, batch, "stop")
    /\ batch' = << >>
    /\ spc' = "returned"
    /\ UNCHANGED <<hot, syncQueue, hpc, repop, apc, attempts, extracted, termLog, newest, mvars,
                   uvars, xvars>>

\* HybridJobStore.Close, first step: close(stopCh).
HybridClose ==
    /\ hpc = "open"
    /\ hpc' = "waiting"
    /\ UNCHANGED <<hot, cold, syncQueue, batch, spc, repop, apc, attempts, extracted,
                   coldLog, termLog, newest, mvars, uvars, xvars>>

\* HybridJobStore.Close, the wait: every 100 ms it looks at len(syncQueue), and
\* after five seconds it gives up; then it closes both tiers.
HybridCloseTiers(timedOut) ==
    /\ hpc = "waiting"
    /\ timedOut \/ Len(syncQueue) = 0
    /\ hpc' = "closed"
    /\ UNCHANGED <<hot, cold, syncQueue, batch, spc, repop, apc, attempts, extracted,
                   coldLog, termLog, newest, mvars, uvars, xvars>>

\* The hybrid store after NewHybridJobStore: both tiers empty, the sync worker
\* started.
InitHybrid ==
    /\ MainIdle
    /\ UpdateIdle
    /\ LaterIdle
    /\ hot = [j \in HJobs |-> NoJob]
    /\ cold = [j \in HJobs |-> NoJob]
    /\ syncQueue = << >>
    /\ batch = << >>
    /\ spc = "running"
    /\ hpc = "open"
    /\ repop = [j \in HJobs |-> NoJob]
    /\ apc = [j \in HJobs |-> "none"]
    /\ attempts = [j \in HJobs |-> 0]
    /\ extracted = {}
    /\ coldLog = {}
    /\ termLog = {}
    /\ newest = [j \in HJobs |-> NoVersion]

NextHybrid ==
    \/ \E j \in HJobs, hotOk \in BOOLEAN : HybridUpload(j, hotOk)
    \/ \E j \in HJobs : HybridDequeue(j)
    \/ \E j \in HJobs, hotOk \in BOOLEAN : HybridProcessing(j, hotOk)
    \/ \E j \in HJobs, m \in Mutators, hotOk, getOk \in BOOLEAN :
           HybridTerminal(j, m, hotOk, getOk)
    \/ \E j \in HJobs : HybridSettle(j)
    \/ \E j \in HJobs : HybridRedeliver(j)
    \/ \E j \in HJobs : HybridGetMiss(j)
    \/ \E j \in HJobs, hotOk \in BOOLEAN : HybridRepopulate(j, hotOk)
    \/ \E j \in HJobs, hotOk \in BOOLEAN : HybridExtract(j, hotOk)
    \/ SyncTake
    \/ SyncTick
    \/ SyncStop
    \/ HybridClose
    \/ \E timedOut \in BOOLEAN : HybridCloseTiers(timedOut)

SpecHybrid == InitHybrid /\ [][NextHybrid]_vars

\* The sync worker is a goroutine in a select loop: a record waiting in
\* syncQueue is received, and the ticker fires, in the end.
SpecHybridFair == SpecHybrid /\ WF_vars(SyncTake) /\ WF_vars(SyncTick)

(* ------------------- Close called more than once (SpecClose) ------------------- *)

Closers == 1..NumClosers

\* The other specifications' variables while a single component runs.
RestIdle ==
    /\ MainIdle
    /\ UpdateIdle
    /\ HybridIdle

\* Go's close(ch): a channel already closed makes the caller panic.
CloseChannel ==
    IF cclosed
    THEN cpanic' = TRUE /\ UNCHANGED cclosed
    ELSE cclosed' = TRUE /\ UNCHANGED cpanic

\* MemoryQueue.Close: close(mq.queue).
MemoryClose(c) ==
    /\ ~cpanic
    /\ ckind = "memory"
    /\ cpc[c] = "idle"
    /\ CloseChannel
    /\ cpc' = [cpc EXCEPT ![c] = "done"]
    /\ UNCHANGED <<ckind, cbuf, cdeq, notClose>>

\* RabbitMQQueue.Close, the select: a closed rq.closed returns nil, otherwise
\* the default case is entered.
RabbitCloseSelect(c) ==
    /\ ~cpanic
    /\ ckind = "rabbit"
    /\ cpc[c] = "idle"
    /\ cpc' = [cpc EXCEPT ![c] = IF cclosed THEN "done" ELSE "default"]
    /\ UNCHANGED <<ckind, cbuf, cclosed, cdeq, cpanic, notClose>>

\* RabbitMQQueue.Close, the default case: close(rq.closed), cancel, and the
\* connections closed; deliveries not yet taken are gone.
RabbitCloseDefault(c) ==
    /\ ~cpanic
    /\ ckind = "rabbit"
    /\ cpc[c] = "default"
    /\ CloseChannel
    /\ cbuf' = 0
    /\ cpc' = [cpc EXCEPT ![c] = "done"]
    /\ UNCHANGED <<ckind, cdeq, notClose>>

\* A Dequeue call returns a job from the channel.
CloseDequeueJob(w) ==
    /\ ~cpanic
    /\ cdeq[w] = "calling"
    /\ cbuf > 0
    /\ cbuf' = cbuf - 1
    /\ cdeq' = [cdeq EXCEPT ![w] = "job"]
    /\ UNCHANGED <<ckind, cclosed, cpc, cpanic, notClose>>

\* A Dequeue call returns the closed error.
CloseDequeueClosed(w) ==
    /\ ~cpanic
    /\ cdeq[w] = "calling"
    /\ cclosed
    /\ cbuf = 0
    /\ cdeq' = [cdeq EXCEPT ![w] = "closed"]
    /\ UNCHANGED <<ckind, cbuf, cclosed, cpc, cpanic, notClose>>

\* The worker's loop calls Dequeue again.
CloseDequeueAgain(w) ==
    /\ ~cpanic
    /\ cdeq[w] = "job"
    /\ cdeq' = [cdeq EXCEPT ![w] = "calling"]
    /\ UNCHANGED <<ckind, cbuf, cclosed, cpc, cpanic, notClose>>

InitClose ==
    /\ RestIdle
    /\ ErrIdle
    /\ PoolIdle
    /\ ConsumeIdle
    /\ SubsIdle
    /\ SplitIdle
    /\ StoreIdle
    /\ EngineIdle
    /\ RetryIdle
    /\ GetIdle
    /\ ckind \in {"memory", "rabbit"}
    /\ cbuf \in 0..QueueCap
    /\ cclosed = FALSE
    /\ cpc = [c \in Closers |-> "idle"]
    /\ cdeq = [w \in Workers |-> "calling"]
    /\ cpanic = FALSE

NextClose ==
    \/ \E c \in Closers : MemoryClose(c)
    \/ \E c \in Closers : RabbitCloseSelect(c)
    \/ \E c \in Closers : RabbitCloseDefault(c)
    \/ \E w \in Workers : CloseDequeueJob(w)
    \/ \E w \in Workers : CloseDequeueClosed(w)
    \/ \E w \in Workers : CloseDequeueAgain(w)

SpecClose == InitClose /\ [][NextClose]_vars

(* ------------- one Transcribe call, processor by processor (SpecEngine) ------------- *)

Processors == 1..NumProcessors

\* The transcripts of the segments: a different word for every index.
SegNames == <<"s0", "s1", "s2", "s3", "s4">>

\* The text Whisper returns for segment i when it hears something.
SegmentText(i) == <<SegNames[i + 1]>>

\* A remote call that takes no notice of the context.
IgnoresCancel(isCancelled) == {"text", "empty", "failed"}

\* What TranscribeWithRetry can return for a segment: under a cancelled context
\* the cancellation error; otherwise a text, an empty text, or the error left
\* when the retries are used up.
CallOutcomes(isCancelled) ==
    IF isCancelled THEN {"cancelled"} ELSE {"text", "empty", "failed"}

\* ProcessResult{SegmentIndex, Response, Error}.
ProcessResult(i, o) == [idx |-> i, out |-> o]

\* A processor that leaves without a result for the segment it took.
NoResult(i) == << >>

\* What a processor sends for the segment it took under a cancelled context.
CancelledResult(i) == <<ProcessResult(i, "cancelled")>>

\* The last of the collected errors.
LastError(errors) == errors[Len(errors)]

\* errors[0], the error Transcribe wraps in the one it returns.
FirstError(errors) == errors[1]

\* A collector that files a text under the number of texts it has so far.
StoreByArrival(texts, idx, text) == (Cardinality(DOMAIN texts) :> text) @@ texts

\* results[result.SegmentIndex] = result.Response.
StoreResult(texts, idx, text) == (idx :> text) @@ texts

\* resultChan <- result, with the history of the sends.
SendResults(rs) ==
    /\ eresults' = eresults \o rs
    /\ earrived' = earrived \o rs

\* segmentProcessor: the next segment of taskChan. Under a cancelled context the
\* processor sends a cancelled result for it and returns; otherwise it calls
\* TranscribeWithRetry.
ProcessorTake(p) ==
    /\ epc = "transcribe"
    /\ eproc[p].pc = "range"
    /\ etask < etotal
    /\ etask' = etask + 1
    /\ IF ectx
       THEN /\ SendResults(CancelledResult(etask))
            /\ eseg' = [eseg EXCEPT ![etask] = "cancelled"]
            /\ eproc' = [eproc EXCEPT ![p] = [pc |-> "done", seg |-> etask]]
       ELSE /\ eproc' = [eproc EXCEPT ![p] = [pc |-> "call", seg |-> etask]]
            /\ UNCHANGED <<eresults, earrived, eseg>>
    /\ UNCHANGED <<etotal, ectx, ecoll, ecalls, eret, erec, epc, esettle, einflight,
                   notEngine>>

\* segmentProcessor: taskChan is closed and empty, the range loop ends.
ProcessorExit(p) ==
    /\ epc = "transcribe"
    /\ eproc[p].pc = "range"
    /\ etask = etotal
    /\ eproc' = [eproc EXCEPT ![p].pc = "done"]
    /\ UNCHANGED <<etotal, etask, eresults, ectx, ecoll, ecalls, eret, erec, epc,
                   esettle, eseg, earrived, einflight, notEngine>>

\* segmentProcessor: TranscribeWithRetry returns and the result is sent.
SegmentReturns(p, o) ==
    /\ epc = "transcribe"
    /\ eproc[p].pc = "call"
    /\ o \in CallOutcomes(ectx)
    /\ SendResults(<<ProcessResult(eproc[p].seg, o)>>)
    /\ eseg' = [eseg EXCEPT ![eproc[p].seg] = o]
    /\ eproc' = [eproc EXCEPT ![p].pc = "range"]
    /\ UNCHANGED <<etotal, etask, ectx, ecoll, ecalls, eret, erec, epc, esettle,
                   einflight, notEngine>>

\* The response text of a successful result.
ResponseText(r) == IF r.out = "text" THEN SegmentText(r.idx) ELSE << >>

\* The collector after result r: completedCount++, the error appended or the
\* response stored.
CollectorAfter(c, r) ==
    IF r.out \in {"text", "empty"}
    THEN [c EXCEPT !.count = @ + 1, !.texts = StoreResult(@, r.idx, ResponseText(r))]
    ELSE [c EXCEPT !.count = @ + 1, !.errors = Append(@, r.idx)]

\* Transcribe's loop over resultChan: one result, then the progress callback,
\* which writes the progress through the store.
Collect ==
    /\ epc = "transcribe"
    /\ eresults # << >>
    /\ eresults' = Tail(eresults)
    /\ ecoll' = CollectorAfter(ecoll, Head(eresults))
    /\ ecalls' = Append(ecalls, ProgressOf(ecoll.count + 1, etotal))
    /\ erec' = SetProgress(erec, ProgressOf(ecoll.count + 1, etotal))
    /\ UNCHANGED <<etotal, etask, eproc, ectx, eret, epc, esettle, eseg, earrived,
                   einflight, notEngine>>

\* Every processor has returned: wg.Wait is over and resultChan is closed.
ResultChanClosed == \A p \in Processors : eproc[p].pc = "done"

\* What Transcribe returns after the loop.
ReturnValue(c) ==
    IF c.errors # << >>
    THEN [kind |-> "err", text |-> << >>, idx |-> FirstError(c.errors)]
    ELSE [kind |-> "ok", text |-> mergeTextResults(c.texts, etotal), idx |-> 0]

\* Transcribe returns: resultChan is closed and drained.
EngineReturn ==
    /\ epc = "transcribe"
    /\ eresults = << >>
    /\ ResultChanClosed
    /\ eret' = ReturnValue(ecoll)
    /\ epc' = "write"
    /\ UNCHANGED <<etotal, etask, eproc, eresults, ectx, ecoll, ecalls, erec, esettle,
                   eseg, earrived, einflight, notEngine>>

\* processJob's terminal write: failed with the error, or completed with the text.
EngineWrite ==
    /\ epc = "write"
    /\ erec' = IF eret.kind = "err" THEN SetFailed(erec, "error")
                                    ELSE SetCompleted(erec, eret.text)
    /\ epc' = "settle"
    /\ UNCHANGED <<etotal, etask, eproc, eresults, ectx, ecoll, ecalls, eret, esettle,
                   eseg, earrived, einflight, notEngine>>

\* processJob's call on the queue: Nack without requeue after a failure, Ack
\* after a success.
EngineSettle ==
    /\ epc = "settle"
    /\ esettle' = Append(esettle, IF eret.kind = "err" THEN NackCall ELSE AckCall)
    /\ epc' = "done"
    /\ UNCHANGED <<etotal, etask, eproc, eresults, ectx, ecoll, ecalls, eret, erec,
                   eseg, earrived, einflight, notEngine>>

\* The job's context is cancelled: Worker.Stop, or the deadline of processJob.
EngineCancel ==
    /\ epc = "transcribe"
    /\ ~ectx
    /\ ectx' = TRUE
    /\ einflight' = \E p \in Processors : eproc[p].pc = "call"
    /\ UNCHANGED <<etotal, etask, eproc, eresults, ecoll, ecalls, eret, erec, epc,
                   esettle, eseg, earrived, notEngine>>

InitEngine ==
    /\ RestIdle
    /\ ErrIdle
    /\ PoolIdle
    /\ ConsumeIdle
    /\ SubsIdle
    /\ SplitIdle
    /\ StoreIdle
    /\ CloseIdle
    /\ RetryIdle
    /\ GetIdle
    /\ etotal \in 1..MaxEngSegs
    /\ etask = 0
    /\ eproc = [p \in Processors |-> [pc |-> "range", seg |-> 0]]
    /\ eresults = << >>
    /\ ectx = FALSE
    /\ ecoll = NoResults
    /\ ecalls = << >>
    /\ eret = NotReturned
    /\ erec = SetProcessing(NewJob)
    /\ epc = "transcribe"
    /\ esettle = << >>
    /\ eseg = [i \in 0..(etotal - 1) |-> "none"]
    /\ earrived = << >>
    /\ einflight = FALSE

\* The steps of the goroutines of processJob and Transcribe.
EngineStep ==
    \/ \E p \in Processors : ProcessorTake(p)
    \/ \E p \in Processors : ProcessorExit(p)
    \/ \E p \in Processors : \E o \in {"text", "empty", "failed", "cancelled"} :
           SegmentReturns(p, o)
    \/ Collect
    \/ EngineReturn
    \/ EngineWrite
    \/ EngineSettle

NextEngine ==
    \/ EngineStep
    \/ EngineCancel

SpecEngine == InitEngine /\ [][NextEngine]_vars

\* The goroutines keep running, and a remote call returns or fails in the end.
SpecEngineFair == SpecEngine /\ WF_vars(EngineStep)

(* ---------------------- TranscribeWithRetry (SpecRetry) ---------------------- *)

RetryCallers == 1..NumRetryCallers

\* A backoff wait that does not listen to the context.
BackoffDeaf == FALSE

\* The backoff select's case <-ctx.Done() is ready.
BackoffHearsCancel == rctx

\* i < maxRetries-1: another attempt follows a failed one.
MoreAttempts(i) == i < rlimit - 1

\* The loop calls wc.Transcribe: the HTTP client sends the request unless the
\* context is already cancelled, in which case Do fails before sending.
RetryAttempt(c) ==
    /\ rpc[c] = "attempt"
    /\ IF rctx
       THEN rpc' = [rpc EXCEPT ![c] = "failed"] /\ UNCHANGED rcalls
       ELSE /\ rpc' = [rpc EXCEPT ![c] = "inflight"]
            /\ rcalls' = [rcalls EXCEPT ![c] = @ + 1]
    /\ UNCHANGED <<rlimit, ri, rctx, rret, rlive, notRetry>>

\* wc.Transcribe returns a text: TranscribeWithRetry returns it.
RetrySucceeds(c) ==
    /\ rpc[c] = "inflight"
    /\ ~rctx
    /\ rpc' = [rpc EXCEPT ![c] = "returned"]
    /\ rret' = [rret EXCEPT ![c] = "ok"]
    /\ UNCHANGED <<rlimit, ri, rcalls, rctx, rlive, notRetry>>

\* wc.Transcribe returns an error: the service failed, or the request was
\* aborted by the cancelled context.
RetryFails(c) ==
    /\ rpc[c] = "inflight"
    /\ rpc' = [rpc EXCEPT ![c] = "failed"]
    /\ UNCHANGED <<rlimit, ri, rcalls, rctx, rret, rlive, notRetry>>

\* After a failed attempt: the cancellation error under a cancelled context,
\* the backoff wait when attempts are left, otherwise the loop ends and the
\* retries-exhausted error is returned.
RetryAfterFailure(c) ==
    /\ rpc[c] = "failed"
    /\ IF rctx
       THEN /\ rpc' = [rpc EXCEPT ![c] = "returned"]
            /\ rret' = [rret EXCEPT ![c] = "cancelled"]
            /\ UNCHANGED ri
       ELSE IF MoreAttempts(ri[c])
       THEN /\ rpc' = [rpc EXCEPT ![c] = "backoff"]
            /\ UNCHANGED <<ri, rret>>
       ELSE /\ rpc' = [rpc EXCEPT ![c] = "returned"]
            /\ rret' = [rret EXCEPT ![c] = "exhausted"]
            /\ ri' = [ri EXCEPT ![c] = @ + 1]
    /\ UNCHANGED <<rlimit, rcalls, rctx, rlive, notRetry>>

\* The backoff select, case <-time.After(waitTime): continue with i+1. The
\* case can be taken under a cancelled context when both cases are ready.
RetryTimer(c) ==
    /\ rpc[c] = "backoff"
    /\ ri' = [ri EXCEPT ![c] = @ + 1]
    /\ rpc' = [rpc EXCEPT ![c] = "attempt"]
    /\ UNCHANGED <<rlimit, rcalls, rctx, rret, rlive, notRetry>>

\* The backoff select, case <-ctx.Done(): the cancellation error.
RetryBackoffCancelled(c) ==
    /\ rpc[c] = "backoff"
    /\ BackoffHearsCancel
    /\ rpc' = [rpc EXCEPT ![c] = "returned"]
    /\ rret' = [rret EXCEPT ![c] = "cancelled"]
    /\ UNCHANGED <<rlimit, ri, rcalls, rctx, rlive, notRetry>>

\* The context of the calls is cancelled.
RetryCancel ==
    /\ ~rctx
    /\ rctx' = TRUE
    /\ rlive' = {c \in RetryCallers : rpc[c] # "returned"}
    /\ UNCHANGED <<rlimit, ri, rpc, rcalls, rret, notRetry>>

InitRetry ==
    /\ RestIdle
    /\ ErrIdle
    /\ PoolIdle
    /\ ConsumeIdle
    /\ SubsIdle
    /\ SplitIdle
    /\ StoreIdle
    /\ CloseIdle
    /\ EngineIdle
    /\ GetIdle
    /\ rlimit \in 1..MaxRetries
    /\ ri = [c \in RetryCallers |-> 0]
    /\ rpc = [c \in RetryCallers |-> "attempt"]
    /\ rcalls = [c \in RetryCallers |-> 0]
    /\ rctx = FALSE
    /\ rret = [c \in RetryCallers |-> "none"]
    /\ rlive = {}

\* The steps of a call that wait for nothing but the goroutine's turn, or for
\* the HTTP client to come back.
RetryStep ==
    \/ \E c \in RetryCallers : RetryAttempt(c)
    \/ \E c \in RetryCallers : RetrySucceeds(c)
    \/ \E c \in RetryCallers : RetryFails(c)
    \/ \E c \in RetryCallers : RetryAfterFailure(c)
    \/ \E c \in RetryCallers : RetryBackoffCancelled(c)

NextRetry ==
    \/ RetryStep
    \/ \E c \in RetryCallers : RetryTimer(c)
    \/ RetryCancel

SpecRetry == InitRetry /\ [][NextRetry]_vars

\* The goroutines run and the HTTP client returns; nothing is assumed about the
\* backoff timers.
SpecRetryFair == SpecRetry /\ WF_vars(RetryStep)

(* ------------------ HybridJobStore.Get, tier by tier (SpecGet) ------------------ *)

\* The fields of TranscriptionJob that exist only in memory (json:"-").
MemoryOnly == {"deliveryTag"}

\* PostgresJobStore.Get: the columns of the row scanned into a new job, whose
\* other fields keep their zero values.
scanRow(row) ==
    [f \in DOMAIN row \cup MemoryOnly |-> IF f \in MemoryOnly THEN 0 ELSE row[f]]

\* An encoder that loses the transcript.
marshalWithoutResult(job) ==
    [f \in DOMAIN job \ MemoryOnly |-> IF f = "result" THEN << >> ELSE job[f]]

\* json.Marshal(job): every field but those tagged json:"-".
jsonMarshal(job) == [f \in DOMAIN job \ MemoryOnly |-> job[f]]

\* json.Unmarshal into a new job: the fields of the data, zero values elsewhere.
jsonUnmarshal(data) ==
    [f \in DOMAIN data \cup MemoryOnly |-> IF f \in MemoryOnly THEN 0 ELSE data[f]]

\* The rows a record can be left with in the cold tier.
ColdRows == {SetCompleted(SetProcessing(NewJob), <<"a">>),
             SetCompleted(SetProcessing(NewJob), << >>),
             SetFailed(SetProgress(SetProcessing(NewJob), 50), "error")}

\* The ways the goroutine's redis.Save can end: both commands done, the key set
\* and the index command failed, or the set failed.
SaveOutcomes == {"ok", "indexFailed", "failed"}

\* HybridJobStore.Get served by the hot tier: redis.Get succeeds.
GetFromHot ==
    /\ Len(gret) < NumGets
    /\ ghot # NoData
    /\ gret' = Append(gret, [job |-> jsonUnmarshal(ghot), tier |-> "hot"])
    /\ UNCHANGED <<ghot, gcold, gwb, gtries, notGet>>

\* HybridJobStore.Get when redis.Get returns an error, the key missing or the
\* hot tier failing: the row is read from the cold tier, a goroutine is started
\* to save it to the hot tier, and the job is returned.
GetFromCold(hotOk) ==
    /\ Len(gret) < NumGets
    /\ ghot = NoData \/ ~hotOk
    /\ gret' = Append(gret, [job |-> scanRow(gcold), tier |-> "cold"])
    /\ gwb' = Append(gwb, scanRow(gcold))
    /\ UNCHANGED <<ghot, gcold, gtries, notGet>>

\* The goroutine started by Get: redis.Save of the job; an error is logged.
WriteBack(o) ==
    /\ gwb # << >>
    /\ gwb' = Tail(gwb)
    /\ ghot' = IF o = "failed" THEN ghot ELSE jsonMarshal(Head(gwb))
    /\ gtries' = Append(gtries, o)
    /\ UNCHANGED <<gcold, gret, notGet>>

\* The key's time to live in the hot tier runs out.
HotExpires ==
    /\ ghot # NoData
    /\ ghot' = NoData
    /\ UNCHANGED <<gcold, gwb, gret, gtries, notGet>>

InitGet ==
    /\ RestIdle
    /\ ErrIdle
    /\ PoolIdle
    /\ ConsumeIdle
    /\ SubsIdle
    /\ SplitIdle
    /\ StoreIdle
    /\ CloseIdle
    /\ EngineIdle
    /\ RetryIdle
    /\ ghot = NoData
    /\ gcold \in ColdRows
    /\ gwb = << >>
    /\ gret = << >>
    /\ gtries = << >>

\* The steps of the write-back goroutines.
WriteBackStep == \E o \in SaveOutcomes : WriteBack(o)

NextGet ==
    \/ GetFromHot
    \/ \E hotOk \in BOOLEAN : GetFromCold(hotOk)
    \/ WriteBackStep
    \/ HotExpires

SpecGet == InitGet /\ [][NextGet]_vars

\* The write-back goroutines run.
SpecGetFair == SpecGet /\ WF_vars(WriteBackStep)

(* ---------------- Save, Get and Delete of the four stores (SpecStore) ---------------- *)

\* The columns PostgresJobStore.Save leaves alone when the row exists.
KeptOnConflict == {"filename"}

\* The jobs the server saves under one id: the upload, then the worker's writes.
StoreJobs ==
    {scanRow([filename |-> "a.mp3"] @@ r) :
        r \in {NewJob,
               SetProgress(SetProcessing(NewJob), 50),
               SetCompleted(SetProcessing(NewJob), <<"a">>),
               SetFailed(SetProcessing(NewJob), "error")}}

\* The row the INSERT of PostgresJobStore.Save writes for a job.
rowOf(job) == [f \in DOMAIN job \ MemoryOnly |-> job[f]]

\* PostgresJobStore.Save: INSERT ... ON CONFLICT (job_id) DO UPDATE SET of every
\* column but those of KeptOnConflict.
upsert(old, job) ==
    IF old = NoData THEN rowOf(job)
    ELSE [f \in DOMAIN rowOf(job) |-> IF f \in KeptOnConflict THEN old[f] ELSE rowOf(job)[f]]

\* The cold tier after db.Save(job), which fails when PostgreSQL does not answer.
ColdSaved(job, coldOk) == IF coldOk THEN upsert(vcold, job) ELSE vcold

\* The hot tier after redis.Save(job) ending as o.
HotSaved(job, o) == IF o = "failed" THEN vhot ELSE jsonMarshal(job)

\* A hybrid Save that writes the cold tier only for a terminal job.
ColdWhenTerminal(job) == job.status \in {StatusCompleted, StatusFailed}

\* A hybrid Save that writes every job through to the cold tier.
ColdAlways(job) == TRUE

\* HybridJobStore.Save hands the job to asyncSyncToDB when it is completed or failed.
SaveSyncs(job) == ColdWhenTerminal(job)

\* Store.Save(job). JobStore keeps the job; RedisJobStore and PostgresJobStore
\* return their error; HybridJobStore logs the error of redis.Save, hands a
\* terminal job to asyncSyncToDB (the queue, or db.Save when it is full) and
\* returns nil.
StoreSave(job, o, coldOk) ==
    /\ CASE vkind = "memory" ->
              /\ vmem' = job
              /\ vret' = [op |-> "save", ok |-> TRUE, job |-> NoData]
              /\ UNCHANGED <<vhot, vcold, vsync>>
         [] vkind = "redis" ->
              /\ vhot' = HotSaved(job, o)
              /\ vret' = [op |-> "save", ok |-> (o = "ok"), job |-> NoData]
              /\ UNCHANGED <<vmem, vcold, vsync>>
         [] vkind = "postgres" ->
              /\ vcold' = ColdSaved(job, coldOk)
              /\ vret' = [op |-> "save", ok |-> coldOk, job |-> NoData]
              /\ UNCHANGED <<vmem, vhot, vsync>>
         [] vkind = "hybrid" ->
              /\ vhot' = HotSaved(job, o)
              /\ vret' = [op |-> "save", ok |-> TRUE, job |-> NoData]
              /\ IF ~SaveSyncs(job) THEN UNCHANGED <<vcold, vsync>>
                 ELSE IF Len(vsync) < SyncQueueCap
                 THEN vsync' = Append(vsync, job) /\ UNCHANGED vcold
                 ELSE vcold' = ColdSaved(job, coldOk) /\ UNCHANGED vsync
              /\ UNCHANGED vmem
    /\ vlast' = IF vret'.ok THEN job ELSE NoData
    /\ UNCHANGED <<vkind, vwb, not_store>>

\* What redis.Get and db.Get return when the tier answers.
FromHot == IF vhot = NoData THEN NoData ELSE jsonUnmarshal(vhot)

FromCold == IF vcold = NoData THEN NoData ELSE scanRow(vcold)

\* Store.Get with every tier answering. HybridJobStore asks the hot tier, then
\* the cold tier, whose row it hands to a write-back goroutine.
StoreGet ==
    LET found == CASE vkind = "memory" -> vmem
                   [] vkind = "redis" -> FromHot
                   [] vkind = "postgres" -> FromCold
                   [] vkind = "hybrid" -> IF FromHot # NoData THEN FromHot ELSE FromCold
    IN /\ vkind = "hybrid" /\ FromHot = NoData /\ FromCold # NoData => Len(vwb) < MaxWriteBacks
       /\ vret' = [op |-> "get", ok |-> (found # NoData), job |-> found]
       /\ vwb' = IF vkind = "hybrid" /\ FromHot = NoData /\ FromCold # NoData
                 THEN Append(vwb, FromCold) ELSE vwb
       /\ UNCHANGED <<vkind, vmem, vhot, vcold, vsync, vlast, not_store>>

\* A Delete that returns an error when either tier's deletion failed.
EitherError(hotErr, coldErr) == hotErr \/ coldErr

\* HybridJobStore.Delete logs the error of redis.Delete and returns that of db.Delete.
DeleteError(hotErr, coldErr) == coldErr

\* HybridJobStore.Delete: redis.Delete, then db.Delete whatever the first did.
\* Either fails when its tier does not answer or holds nothing under the id.
StoreDelete(hotOk, coldOk) ==
    /\ vkind = "hybrid"
    /\ vhot' = IF hotOk THEN NoData ELSE vhot
    /\ vcold' = IF coldOk THEN NoData ELSE vcold
    /\ vret' = [op |-> "delete",
                ok |-> ~DeleteError(~hotOk \/ vhot = NoData, ~coldOk \/ vcold = NoData),
                job |-> NoData]
    /\ vlast' = NoData
    /\ UNCHANGED <<vkind, vmem, vsync, vwb, not_store>>

\* syncWorker and batchSave: db.Save of the next job of syncQueue; an error is logged.
StoreSync(coldOk) ==
    /\ vsync # << >>
    /\ vsync' = Tail(vsync)
    /\ vcold' = ColdSaved(Head(vsync), coldOk)
    /\ UNCHANGED <<vkind, vmem, vhot, vwb, vlast, vret, not_store>>

\* The write-back goroutine of Get: redis.Save; an error is logged.
StoreWriteBack(o) ==
    /\ vwb # << >>
    /\ vwb' = Tail(vwb)
    /\ vhot' = HotSaved(Head(vwb), o)
    /\ UNCHANGED <<vkind, vmem, vcold, vsync, vlast, vret, not_store>>

InitStore ==
    /\ RestIdle
    /\ ErrIdle
    /\ PoolIdle
    /\ ConsumeIdle
    /\ SubsIdle
    /\ SplitIdle
    /\ CloseIdle
    /\ EngineIdle
    /\ RetryIdle
    /\ GetIdle
    /\ vkind \in StoreKinds
    /\ vmem = NoData
    /\ vhot = NoData
    /\ vcold = NoData
    /\ vsync = << >>
    /\ vwb = << >>
    /\ vlast = NoData
    /\ vret = NoCall

NextStore ==
    \/ \E job \in StoreJobs : \E o \in SaveOutcomes : \E coldOk \in BOOLEAN :
           StoreSave(job, o, coldOk)
    \/ StoreGet
    \/ \E hotOk, coldOk \in BOOLEAN : StoreDelete(hotOk, coldOk)
    \/ \E coldOk \in BOOLEAN : StoreSync(coldOk)
    \/ \E o \in SaveOutcomes : StoreWriteBack(o)

SpecStore == InitStore /\ [][NextStore]_vars

(* ------- AudioSplitter.Split and Cleanup under concurrent Transcribe ------ *)

\* The Transcribe invocations, one per worker, each on the upload of its own job.
Invocations == 1..NumInvocations

\* Seconds in the unit of the durations, half a second.
HalfSeconds(s) == 2 * s

\* The durations getAudioDuration may report.
Durations == 1..HalfSeconds(MaxMultiple * SegmentDuration)

\* int(duration): the whole seconds of a duration.
intOf(d) == d \div 2

\* segmentCount := int(duration)/as.segmentDuration + 1
segmentCount(d) == intOf(d) \div SegmentDuration + 1

\* The numbers of the files segment_NNN.mp3.
SegmentFiles == 0..MaxMultiple

\* duration <= float64(as.segmentDuration)
NeedsNoSplit(d) == d <= HalfSeconds(SegmentDuration)

\* The single segment of a short upload: the uploaded file itself.
WholeFile(i, d) ==
    [Index |-> 0, FilePath |-> [dir |-> "uploads", name |-> i], Start |-> 0, End |-> d]

\* Segment k of the loop of Split: the file uploads/segments/segment_k.mp3,
\* whatever the upload is.
SegmentOf(d, k) ==
    LET start == HalfSeconds(k * SegmentDuration)
        end   == start + HalfSeconds(SegmentDuration)
    IN  [Index    |-> k,
         FilePath |-> [dir |-> "segments", name |-> k],
         Start    |-> start,
         End      |-> IF end > d THEN d ELSE end]

\* An access of invocation i to a segment file that invocation `owner` wrote
\* and still works with.
Foreign(kind, i, owner) ==
    IF owner \in Invocations \ {i} /\ fpc[owner] \in {"extract", "process"}
    THEN {[kind |-> kind, by |-> i, of |-> owner]}
    ELSE {}

\* Split up to the loop: getAudioDuration, the short-file return, MkdirAll.
SplitBegin(i, probeOk) ==
    /\ fpc[i] = "start"
    /\ IF ~probeOk
       THEN /\ fpc' = [fpc EXCEPT ![i] = "done"]
            /\ fret' = [fret EXCEPT ![i] = "splitFailed"]
            /\ UNCHANGED <<fsegs, fdir, fmade>>
       ELSE IF NeedsNoSplit(fdur[i])
       THEN /\ fsegs' = [fsegs EXCEPT ![i] = <<WholeFile(i, fdur[i])>>]
            /\ fpc' = [fpc EXCEPT ![i] = "process"]
            /\ UNCHANGED <<fret, fdir, fmade>>
       ELSE /\ fdir' = TRUE
            /\ fmade' = fmade \cup {i}
            /\ fpc' = [fpc EXCEPT ![i] = "extract"]
            /\ UNCHANGED <<fsegs, fret>>
    /\ UNCHANGED <<fdur, fres, ffiles, fevents, not_split>>

\* One round of the loop of Split: extractSegment writes segment_k.mp3 with
\* ffmpeg -y. When it fails Split returns nil and Transcribe returns the error
\* before it defers Cleanup.
SplitExtract(i, ok) ==
    /\ fpc[i] = "extract"
    /\ ok => fdir
    /\ LET k == Len(fsegs[i])
       IN  IF ok
           THEN /\ ffiles' = [ffiles EXCEPT ![k] = i]
                /\ fevents' = fevents \cup Foreign("overwrite", i, ffiles[k])
                /\ fsegs' = [fsegs EXCEPT ![i] = Append(@, SegmentOf(fdur[i], k))]
                /\ fpc' = [fpc EXCEPT ![i] =
                             IF k + 1 = segmentCount(fdur[i]) THEN "process" ELSE "extract"]
                /\ UNCHANGED fret
           ELSE /\ fsegs' = [fsegs EXCEPT ![i] = << >>]
                /\ fpc' = [fpc EXCEPT ![i] = "done"]
                /\ fret' = [fret EXCEPT ![i] = "splitFailed"]
                /\ UNCHANGED <<ffiles, fevents>>
    /\ UNCHANGED <<fdur, fres, fdir, fmade, not_split>>

\* The results a segment can end with.
SegmentResults == {"ok", "error", "cancelled"}

\* The segments of invocation i no processor has handled yet.
Unhandled(i) == {k \in 1..Len(fsegs[i]) : k \notin DOMAIN fres[i]}

\* A segment processor handles one segment: unless the context is cancelled
\* it opens the file at FilePath, which fails when the file is gone.
ProcessSegment(i, k, o) ==
    /\ fpc[i] = "process"
    /\ k \in Unhandled(i)
    /\ LET seg    == fsegs[i][k]
           shared == seg.FilePath.dir = "segments"
           owner  == IF shared THEN ffiles[seg.Index] ELSE i
       IN  /\ (o = "ok") => owner # 0
           /\ fevents' = IF o = "cancelled" THEN fevents
                         ELSE fevents \cup Foreign("read", i, owner)
    /\ fres' = [fres EXCEPT ![i] = (k :> o) @@ @]
    /\ UNCHANGED <<fdur, fpc, fsegs, fdir, ffiles, fmade, fret, not_split>>

\* Cleanup removes the directory of the first segment, with all that is in
\* it, when the directory is named segments.
CleanupRemoves(segments) ==
    Len(segments) > 0 /\ segments[1].FilePath.dir = "segments"

\* Transcribe returns after the last result: the error of a segment or the
\* text, and the deferred Cleanup runs.
TranscribeReturn(i) ==
    /\ fpc[i] = "process"
    /\ Unhandled(i) = {}
    /\ fret' = [fret EXCEPT ![i] =
                  IF \E k \in DOMAIN fres[i] : fres[i][k] # "ok" THEN "failed" ELSE "ok"]
    /\ fpc' = [fpc EXCEPT ![i] = "done"]
    /\ IF CleanupRemoves(fsegs[i])
       THEN /\ fdir' = FALSE
            /\ ffiles' = [k \in SegmentFiles |-> 0]
            /\ fevents' = fevents \cup
                   UNION {Foreign("delete", i, ffiles[k]) : k \in SegmentFiles}
       ELSE UNCHANGED <<fdir, ffiles, fevents>>
    /\ UNCHANGED <<fdur, fsegs, fres, fmade, not_split>>

InitSplit ==
    /\ RestIdle
    /\ ErrIdle
    /\ PoolIdle
    /\ ConsumeIdle
    /\ SubsIdle
    /\ CloseIdle
    /\ EngineIdle
    /\ RetryIdle
    /\ GetIdle
    /\ StoreIdle
    /\ fdur \in [Invocations -> Durations]
    /\ fpc = [i \in Invocations |-> "start"]
    /\ fsegs = [i \in Invocations |-> << >>]
    /\ fres = [i \in Invocations |-> << >>]
    /\ fdir = FALSE
    /\ ffiles = [k \in SegmentFiles |-> 0]
    /\ fmade = {}
    /\ fret = [i \in Invocations |-> "none"]
    /\ fevents = {}

NextSplit ==
    \/ \E i \in Invocations : \E probeOk \in BOOLEAN : SplitBegin(i, probeOk)
    \/ \E i \in Invocations : \E ok \in BOOLEAN : SplitExtract(i, ok)
    \/ \E i \in Invocations : \E k \in SegmentFiles \cup {MaxMultiple + 1} :
           \E o \in SegmentResults : ProcessSegment(i, k, o)
    \/ \E i \in Invocations : TranscribeReturn(i)

SpecSplit == InitSplit /\ [][NextSplit]_vars

(* --------------- generateSubtitleFiles, GenerateSRT, GenerateVTT ---------- *)

\* What Split returns for an upload of duration d when every extractSegment
\* succeeds.
SplitResult(d) ==
    IF NeedsNoSplit(d)
    THEN <<WholeFile(1, d)>>
    ELSE [k \in 1..segmentCount(d) |-> SegmentOf(d, k - 1)]

\* The texts of a cue: words, or white space only.
CueTexts == {"a", " "}

\* strings.TrimSpace on those texts.
TrimSpace(t) == IF t = " " THEN "" ELSE t

\* The cues the transcription service may return for a segment: they start at
\* the beginning or at the very end of the segment, in segment-local time.
CuesOf(seg) ==
    {[Start |-> a, End |-> seg.End - seg.Start, Text |-> t] :
        a \in {0, seg.End - seg.Start}, t \in CueTexts}

\* The lists of cues of a response: at most MaxCues, ordered by start.
CueLists(seg) ==
    UNION {{s \in [1..n -> CuesOf(seg)] :
               \A k \in 2..n : s[k - 1].Start <= s[k].Start} : n \in 0..MaxCues}

\* No subtitle file yet.
NoFile == [state |-> "none", cues |-> << >>]

\* formatSRTTime and formatVTTTime: hours, minutes, seconds and milliseconds
\* of a time, with the separator of the format.
formatTime(t, sep) ==
    [h   |-> intOf(t) \div 3600,
     m   |-> (intOf(t) % 3600) \div 60,
     s   |-> intOf(t) % 60,
     ms  |-> (t - HalfSeconds(intOf(t))) * 500,
     sep |-> sep]

\* A cue without the offset of its segment.
LocalStart(seg, cue) == cue.Start

\* actualStart := sr.Segment.Start + whisperSeg.Start
ActualStart(seg, cue) == seg.Start + cue.Start

\* actualEnd := sr.Segment.Start + whisperSeg.End
ActualEnd(seg, cue) == seg.Start + cue.End

\* generateSubtitleFiles: the segments that have a result, in the order of
\* the list Split returned, each with its response.
segmentResults(segments, results) ==
    LET have == SelectSeq(segments, LAMBDA seg : seg.Index \in DOMAIN results)
    IN  [k \in 1..Len(have) |-> [Segment |-> have[k], Response |-> results[have[k].Index]]]

\* The cues the generators write for a list of segment results: segment by
\* segment, cue by cue, without those whose text is blank.
RECURSIVE Emitted(_)
Emitted(srs) ==
    IF srs = << >> THEN << >>
    ELSE LET sr   == Head(srs)
             kept == SelectSeq(sr.Response.Segments, LAMBDA c : TrimSpace(c.Text) # "")
         IN  [k \in 1..Len(kept) |-> [seg |-> sr.Segment, cue |-> kept[k]]] \o Emitted(Tail(srs))

\* The blocks of a subtitle file: number, start and end with the separator of
\* the file format, text; `from` is the index of the segment the cue came from.
Blocks(srs, sep) ==
    LET es == Emitted(srs)
    IN  [n \in 1..Len(es) |->
            [n     |-> n,
             start |-> formatTime(ActualStart(es[n].seg, es[n].cue), sep),
             end   |-> formatTime(ActualEnd(es[n].seg, es[n].cue), sep),
             text  |-> TrimSpace(es[n].cue.Text),
             from  |-> es[n].seg.Index]]

\* The collector of Transcribe stores the result of one more segment.
Arrive(k) ==
    /\ bsrt = NoFile
    /\ k \in DOMAIN bcues \ DOMAIN bresults
    /\ bresults' = (k :> [Segments |-> bcues[k]]) @@ bresults
    /\ barrived' = Append(barrived, k)
    /\ UNCHANGED <<bsegs, bcues, bsrt, bvtt, not_subs>>

\* generateSubtitleFiles after the last result: the .srt file, then the .vtt
\* file; the first that cannot be written ends the call.
generateSubtitleFiles(srtOk, vttOk) ==
    /\ bsrt = NoFile
    /\ DOMAIN bresults = DOMAIN bcues
    /\ LET srs == segmentResults(bsegs, bresults)
       IN  /\ bsrt' = IF srtOk THEN [state |-> "written", cues |-> Blocks(srs, ",")]
                      ELSE [state |-> "failed", cues |-> << >>]
           /\ bvtt' = IF ~srtOk THEN bvtt
                      ELSE IF vttOk THEN [state |-> "written", cues |-> Blocks(srs, ".")]
                      ELSE [state |-> "failed", cues |-> << >>]
    /\ UNCHANGED <<bsegs, bcues, barrived, bresults, not_subs>>

InitSubs ==
    /\ RestIdle
    /\ ErrIdle
    /\ PoolIdle
    /\ ConsumeIdle
    /\ CloseIdle
    /\ EngineIdle
    /\ RetryIdle
    /\ GetIdle
    /\ StoreIdle
    /\ SplitIdle
    /\ \E d \in Durations :
           /\ bsegs = SplitResult(d)
           /\ bcues \in {f \in [0..Len(bsegs) - 1 ->
                                   UNION {CueLists(bsegs[k]) : k \in 1..Len(bsegs)}] :
                            \A k \in 0..Len(bsegs) - 1 : f[k] \in CueLists(bsegs[k + 1])}
    /\ barrived = << >>
    /\ bresults = << >>
    /\ bsrt = NoFile
    /\ bvtt = NoFile

NextSubs ==
    \/ \E k \in SegmentFiles : Arrive(k)
    \/ \E srtOk, vttOk \in BOOLEAN : generateSubtitleFiles(srtOk, vttOk)

SpecSubs == InitSubs /\ [][NextSubs]_vars

(* ---------- RabbitMQQueue.Dequeue and Worker.run over one connection ------- *)

\* The bodies of the messages in the queue: the JSON of a job, or bytes
\* json.Unmarshal rejects.
Bodies == {"job", "garbage"}

\* json.Unmarshal(delivery.Body, &job) returns nil.
Deserialises(body) == body = "job"

\* The messages in the queue of the broker, in the order they were published.
Messages(bodyOf) == [n \in 1..NumDeliveries |-> [id |-> n, body |-> bodyOf[n]]]

\* No job in the hands of a worker.
NoMsg == [id |-> 0, body |-> "none"]

\* A Dequeue that asks the broker to queue the rejected message again.
RequeuePoison == TRUE

\* The requeue argument of the Nack of a message that does not deserialise.
PoisonRequeue == FALSE

\* run after a Dequeue error: time.Sleep(1 * time.Second); continue.
AfterError(w) == "sleep"

\* RabbitMQ pushes a message to the consumer while fewer than the prefetch
\* count are unacknowledged.
ConsumeDeliver ==
    /\ kopen
    /\ kbroker # << >>
    /\ Cardinality(kunacked) < PrefetchCount
    /\ kchan' = Send(kchan, Head(kbroker))
    /\ kunacked' = kunacked \cup {Head(kbroker)}
    /\ kbroker' = Tail(kbroker)
    /\ UNCHANGED <<kopen, knacks, kpc, kjob, kctx, kerr, kstore, klast, not_consume>>

\* The messages of a set in the order of their ids.
RECURSIVE InOrder(_)
InOrder(ms) ==
    IF ms = {} THEN << >>
    ELSE LET m == CHOOSE x \in ms : \A y \in ms : x.id <= y.id
         IN  <<m>> \o InOrder(ms \ {m})

\* The connection to the broker drops: the client library closes the delivery
\* channel, and the broker puts the unacknowledged messages back in the queue.
\* Nothing in RabbitMQQueue connects again.
ConnectionDrop ==
    /\ kopen
    /\ kopen' = FALSE
    /\ kchan' = << >>
    /\ kbroker' = InOrder(kunacked) \o kbroker
    /\ kunacked' = {}
    /\ UNCHANGED <<knacks, kpc, kjob, kctx, kerr, kstore, klast, not_consume>>

\* run, top of the loop: a cancelled worker returns, another calls Dequeue.
PollCheck(w) ==
    /\ kpc[w] = "check"
    /\ kpc' = [kpc EXCEPT ![w] = IF kctx[w] THEN "stopped" ELSE "dequeue"]
    /\ UNCHANGED <<kbroker, kchan, kopen, kunacked, knacks, kjob, kctx, kerr, kstore,
                   klast, not_consume>>

\* Dequeue receives a delivery whose body is a job and returns the job.
DequeueJob(w) ==
    /\ kpc[w] = "dequeue"
    /\ kchan # << >>
    /\ Deserialises(Head(kchan).body)
    /\ kchan' = Receive(kchan)
    /\ kjob' = [kjob EXCEPT ![w] = Head(kchan)]
    /\ klast' = [klast EXCEPT ![w] = "job"]
    /\ kpc' = [kpc EXCEPT ![w] = "process"]
    /\ UNCHANGED <<kbroker, kopen, kunacked, knacks, kctx, kerr, kstore, not_consume>>

\* Dequeue receives a delivery whose body json.Unmarshal rejects: it calls
\* nackInternal(tag, false) and returns the error; run sleeps and loops.
DequeuePoison(w) ==
    /\ kpc[w] = "dequeue"
    /\ kchan # << >>
    /\ ~Deserialises(Head(kchan).body)
    /\ kchan' = Receive(kchan)
    /\ knacks' = knacks \cup {[tag |-> Head(kchan).id, requeue |-> PoisonRequeue,
                               from |-> "Dequeue"]}
    /\ kunacked' = kunacked \ {Head(kchan)}
    /\ kbroker' = IF PoisonRequeue THEN Append(kbroker, Head(kchan)) ELSE kbroker
    /\ klast' = [klast EXCEPT ![w] = "unmarshal"]
    /\ kpc' = [kpc EXCEPT ![w] = AfterError(w)]
    /\ UNCHANGED <<kopen, kjob, kctx, kerr, kstore, not_consume>>

\* Dequeue finds the delivery channel closed and returns the error; run
\* sleeps and loops.
DequeueClosed(w) ==
    /\ kpc[w] = "dequeue"
    /\ kchan = << >>
    /\ ~kopen
    /\ kerr' = [kerr EXCEPT ![w] = IF @ < MaxPolls THEN @ + 1 ELSE @]
    /\ klast' = [klast EXCEPT ![w] = "closed"]
    /\ kpc' = [kpc EXCEPT ![w] = AfterError(w)]
    /\ UNCHANGED <<kbroker, kchan, kopen, kunacked, knacks, kjob, kctx, kstore,
                   not_consume>>

\* time.Sleep(1 * time.Second); continue.
PollSleep(w) ==
    /\ kpc[w] = "sleep"
    /\ kpc' = [kpc EXCEPT ![w] = "check"]
    /\ UNCHANGED <<kbroker, kchan, kopen, kunacked, knacks, kjob, kctx, kerr, kstore,
                   klast, not_consume>>

\* processJob as one step: the terminal write, then Ack or Nack without
\* requeue, which settles the delivery while the consumer channel is open.
PollProcess(w, ok) ==
    /\ kpc[w] = "process"
    /\ kstore' = [kstore EXCEPT ![kjob[w].id] = IF ok THEN StatusCompleted ELSE StatusFailed]
    /\ knacks' = IF ok THEN knacks
                 ELSE knacks \cup {[tag |-> kjob[w].id, requeue |-> FALSE,
                                    from |-> "processJob"]}
    /\ kunacked' = IF kopen THEN kunacked \ {kjob[w]} ELSE kunacked
    /\ kjob' = [kjob EXCEPT ![w] = NoMsg]
    /\ kpc' = [kpc EXCEPT ![w] = "check"]
    /\ UNCHANGED <<kbroker, kchan, kopen, kctx, kerr, klast, not_consume>>

\* Worker.Stop cancels the context of the worker.
PollStop(w) ==
    /\ ~kctx[w]
    /\ kctx' = [kctx EXCEPT ![w] = TRUE]
    /\ UNCHANGED <<kbroker, kchan, kopen, kunacked, knacks, kpc, kjob, kerr, kstore,
                   klast, not_consume>>

InitConsume ==
    /\ RestIdle
    /\ ErrIdle
    /\ PoolIdle
    /\ CloseIdle
    /\ EngineIdle
    /\ RetryIdle
    /\ GetIdle
    /\ StoreIdle
    /\ SplitIdle
    /\ SubsIdle
    /\ \E bodyOf \in [1..NumDeliveries -> Bodies] :
           /\ kbroker = Messages(bodyOf)
           /\ kstore = [n \in 1..NumDeliveries |->
                           IF Deserialises(bodyOf[n]) THEN StatusPending ELSE "absent"]
    /\ kchan = << >>
    /\ kopen = TRUE
    /\ kunacked = {}
    /\ knacks = {}
    /\ kpc = [w \in Workers |-> "check"]
    /\ kjob = [w \in Workers |-> NoMsg]
    /\ kctx = [w \in Workers |-> FALSE]
    /\ kerr = [w \in Workers |-> 0]
    /\ klast = [w \in Workers |-> "none"]

\* The steps of worker w.
PollStep(w) ==
    \/ PollCheck(w)
    \/ DequeueJob(w)
    \/ DequeuePoison(w)
    \/ DequeueClosed(w)
    \/ PollSleep(w)
    \/ \E ok \in BOOLEAN : PollProcess(w, ok)

NextConsume ==
    \/ ConsumeDeliver
    \/ ConnectionDrop
    \/ \E w \in Workers : PollStep(w)
    \/ \E w \in Workers : PollStop(w)

SpecConsume == InitConsume /\ [][NextConsume]_vars

\* Every worker goroutine keeps running.
SpecConsumeFair == SpecConsume /\ \A w \in Workers : WF_vars(PollStep(w))

(* --------- N workers, K segment processors per Transcribe (SpecPool) ------- *)

\* A Transcribe that starts one processor for every segment.
OnePerSegment(total) == 1..total

\* for i := 0; i < te.segmentConcurrency; i++ { go te.segmentProcessor(...) }
PoolProcessors(total) == Processors

\* The remote calls in progress in the Transcribe of worker w.
CallsOf(w) == {p \in DOMAIN nproc[w] : nproc[w][p] = "call"}

\* run: Dequeue returns a job and processJob calls Transcribe, which cuts the
\* upload into total segments and starts its processors.
PoolDequeue(w, total) ==
    /\ nheld[w] = {}
    /\ nqueue # << >>
    /\ nqueue' = Receive(nqueue)
    /\ nheld' = [nheld EXCEPT ![w] = @ \cup {Head(nqueue)}]
    /\ ntotal' = [ntotal EXCEPT ![w] = total]
    /\ ntask' = [ntask EXCEPT ![w] = 0]
    /\ nproc' = [nproc EXCEPT ![w] = [p \in PoolProcessors(total) |-> "range"]]
    /\ UNCHANGED not_pool

\* segmentProcessor takes the next segment from taskChan and calls
\* TranscribeWithRetry.
PoolTake(w, p) ==
    /\ p \in DOMAIN nproc[w]
    /\ nproc[w][p] = "range"
    /\ ntask[w] < ntotal[w]
    /\ ntask' = [ntask EXCEPT ![w] = @ + 1]
    /\ nproc' = [nproc EXCEPT ![w][p] = "call"]
    /\ UNCHANGED <<nqueue, nheld, ntotal, not_pool>>

\* TranscribeWithRetry returns, with a text or an error, and the processor
\* sends the result.
PoolCallReturns(w, p) ==
    /\ p \in DOMAIN nproc[w]
    /\ nproc[w][p] = "call"
    /\ nproc' = [nproc EXCEPT ![w][p] = "range"]
    /\ UNCHANGED <<nqueue, nheld, ntotal, ntask, not_pool>>

\* taskChan is closed and empty: the processor returns.
PoolExit(w, p) ==
    /\ p \in DOMAIN nproc[w]
    /\ nproc[w][p] = "range"
    /\ ntask[w] = ntotal[w]
    /\ nproc' = [nproc EXCEPT ![w][p] = "done"]
    /\ UNCHANGED <<nqueue, nheld, ntotal, ntask, not_pool>>

\* Every processor has returned: Transcribe returns, processJob writes the
\* terminal status and settles the message, and run loops.
PoolJobDone(w) ==
    /\ nheld[w] # {}
    /\ \A p \in DOMAIN nproc[w] : nproc[w][p] = "done"
    /\ nheld' = [nheld EXCEPT ![w] = {}]
    /\ ntotal' = [ntotal EXCEPT ![w] = 0]
    /\ ntask' = [ntask EXCEPT ![w] = 0]
    /\ nproc' = [nproc EXCEPT ![w] = << >>]
    /\ UNCHANGED <<nqueue, not_pool>>

InitPool ==
    /\ RestIdle
    /\ ErrIdle
    /\ CloseIdle
    /\ EngineIdle
    /\ RetryIdle
    /\ GetIdle
    /\ StoreIdle
    /\ SplitIdle
    /\ SubsIdle
    /\ ConsumeIdle
    /\ nqueue = [j \in 1..NumPoolJobs |-> j]
    /\ nheld = [w \in Workers |-> {}]
    /\ ntotal = [w \in Workers |-> 0]
    /\ ntask = [w \in Workers |-> 0]
    /\ nproc = [w \in Workers |-> << >>]

NextPool ==
    \/ \E w \in Workers : \E total \in 1..MaxEngSegs : PoolDequeue(w, total)
    \/ \E w \in Workers : \E p \in 1..MaxEngSegs : PoolTake(w, p)
    \/ \E w \in Workers : \E p \in 1..MaxEngSegs : PoolCallReturns(w, p)
    \/ \E w \in Workers : \E p \in 1..MaxEngSegs : PoolExit(w, p)
    \/ \E w \in Workers : PoolJobDone(w)

SpecPool == InitPool /\ [][NextPool]_vars

(* ------- from the errors of the attempts to the job record (SpecErr) ------ *)

\* The segments of the job.
ErrSegments == 0..(NumErrSegs - 1)

\* The messages of the errors an attempt of WhisperClient.Transcribe returns.
ErrNames == {"timeout", "status500"}

\* The error of the first attempt.
firstErr(errs) == errs[1]

\* lastErr after the loop of TranscribeWithRetry: the error of the last attempt.
lastErr(errs) == errs[Len(errs)]

\* fmt.Errorf("重试 %d 次后仍然失败: %v", maxRetries, lastErr)
RetryError(errs) == <<"retries", ToString(MaxRetries), "failed:", lastErr(errs)>>

\* fmt.Errorf("片段 %d 失败: %v", result.SegmentIndex, result.Error)
SegmentError(idx, msg) == <<"segment", ToString(idx), "failed:">> \o msg

\* fmt.Errorf("转换过程中出现 %d 个错误: %v", len(errors), errors[0])
TranscribeError(errors) == <<ToString(Len(errors)), "errors:">> \o FirstError(errors)

\* TranscribeWithRetry has not returned for the segment.
NoReturn == [kind |-> "none", msg |-> << >>]

\* One attempt of TranscribeWithRetry for segment i under a live context: a
\* text ends the call; an error is kept as lastErr, and after the last attempt
\* the call returns the error that wraps it. The processor sends the result
\* and the collector of Transcribe appends the error of a failed one.
ErrAttempt(i, o) ==
    /\ ores[i] = NoReturn
    /\ IF o = "ok"
       THEN /\ ores' = [ores EXCEPT ![i] = [kind |-> "ok", msg |-> << >>]]
            /\ UNCHANGED <<oatt, oerrors>>
       ELSE LET errs == Append(oatt[i], o)
            IN  /\ oatt' = [oatt EXCEPT ![i] = errs]
                /\ IF Len(errs) < MaxRetries
                   THEN UNCHANGED <<ores, oerrors>>
                   ELSE /\ ores' = [ores EXCEPT ![i] = [kind |-> "err", msg |-> RetryError(errs)]]
                        /\ oerrors' = Append(oerrors, SegmentError(i, RetryError(errs)))
    /\ UNCHANGED <<orec, not_err>>

\* Transcribe returns after the last result and processJob writes the
\* terminal status: failed with err.Error(), or completed.
ErrTerminalWrite ==
    /\ orec.status = StatusProcessing
    /\ \A i \in ErrSegments : ores[i] # NoReturn
    /\ orec' = IF oerrors # << >>
               THEN SetFailed(orec, TranscribeError(oerrors))
               ELSE SetCompleted(orec, <<"a">>)
    /\ UNCHANGED <<oatt, ores, oerrors, not_err>>

InitErr ==
    /\ RestIdle
    /\ CloseIdle
    /\ EngineIdle
    /\ RetryIdle
    /\ GetIdle
    /\ StoreIdle
    /\ SplitIdle
    /\ SubsIdle
    /\ ConsumeIdle
    /\ PoolIdle
    /\ oatt = [i \in ErrSegments |-> << >>]
    /\ ores = [i \in ErrSegments |-> NoReturn]
    /\ oerrors = << >>
    /\ orec = SetProcessing(NewJob)

NextErr ==
    \/ \E i \in ErrSegments : \E o \in ErrNames \cup {"ok"} : ErrAttempt(i, o)
    \/ ErrTerminalWrite

SpecErr == InitErr /\ [][NextErr]_vars

(* ------------------------------ properties ---------------------------- *)

\* s is an initial part of t.
IsPrefix(s, t) == Len(s) <= Len(t) /\ SubSeq(t, 1, Len(s)) = s

\* How often x occurs in the sequence s.
Occurrences(s, x) == Cardinality({i \in DOMAIN s : s[i] = x})

\* The elements of the sequence s.
Range(s) == {s[i] : i \in DOMAIN s}

\* The two histories processJob may leave for a job.
DecisionLogs == {<<"dequeue", "completed", "ack">>, <<"dequeue", "failed", "nack">>}

\* C1: every dequeued job gets exactly one acknowledgement decision, made after
\* the terminal write: completed then Ack, or failed then Nack without requeue;
\* never both, never twice, never a requeue. A job's history is an initial part of
\* one of the two full histories, and is full once no worker holds the job.
C1_OneDecisionAfterTerminalWrite ==
    \A j \in JobIds :
        /\ \E t \in DecisionLogs : IsPrefix(jlog[j], t)
        /\ Len(jlog[j]) >= 2 =>
               store[j].status = (IF jlog[j][2] = "completed" THEN StatusCompleted
                                                              ELSE StatusFailed)
        /\ (jlog[j] # << >> /\ j \notin Held) => jlog[j] \in DecisionLogs

\* C1's case: one job was completed and acked, another failed and was nacked.
C1_Witness ==
    \E j, k \in JobIds :
        /\ jlog[j] = <<"dequeue", "completed", "ack">>
        /\ jlog[k] = <<"dequeue", "failed", "nack">>

C4_HeldJobsSettledBeforeClose ==
    (qclosed \/ storeClosed) =>
        \A j \in heldAtSignal : IsTerminal(store[j]) /\ jlog[j] \in DecisionLogs

\* C9: each enqueued job is returned by at most one Dequeue call and held by at
\* most one worker; while the queue is open an enqueued job is in the queue or
\* has been returned, exactly once; the in-memory queue returns jobs in the order
\* of their Enqueue.
C9_ExactlyOneDequeue ==
    /\ \A j \in JobIds : Occurrences(deqLog, j) <= 1
    /\ Range(deqLog) \subseteq Range(enqLog)
    /\ \A v, w \in Workers : (v # w /\ wjob[v] # 0) => wjob[v] # wjob[w]
    /\ ~qclosed =>
           \A j \in Range(enqLog) :
               Occurrences(queue, j) + Occurrences(broker, j) + Occurrences(deqLog, j) = 1
    /\ qkind = "memory" => IsPrefix(deqLog, enqLog)

\* C9's case: both workers hold a job at once, after three jobs were enqueued.
C9_Witness ==
    /\ Len(enqLog) = 3
    /\ Len(deqLog) >= 2
    /\ \A w \in Workers : wjob[w] # 0

\* C10: a Dequeue call blocked when Close ran returns the closed error: it never
\* returns a job, and until it has returned the error return is open to it.
C10_BlockedDequeueReturnsClosed ==
    \A w \in parked :
        /\ woke[w] # "job"
        /\ woke[w] = "none" => (wpc[w] = "dequeue" /\ DequeueFails)

\* C10's case: every worker was blocked in Dequeue at Close, and one has returned.
C10_Witness ==
    /\ parked = Workers
    /\ \E w \in parked : woke[w] = "closed"

RECURSIVE SerialResults(_, _)
\* The records the callers in S can leave when their mutators run one after the
\* other, in any order, from the record r.
SerialResults(S, r) ==
    IF S = {} THEN {r}
    ELSE UNION {SerialResults(S \ {c}, Apply(umut[c], r)) : c \in S}

\* C3: when all the concurrent callers of Update on one id have returned, the
\* stored record is the result of all their mutators in some serial order, in
\* every Store implementation.
C3_NoLostUpdate ==
    (\A c \in Callers : upc[c] = "done") => urec \in SerialResults(Callers, NewJob)

\* The statuses a record has before its processing has ended.
NonTerminal == {StatusPending, StatusProcessing}

\* C5: once a persisted copy of a job, in the hot tier or in the cold tier, is
\* completed or failed, no step of the worker or of the hybrid store takes that
\* copy back to pending or processing.
C5_NoRegression ==
    [][\A j \in HJobs :
          /\ IsTerminal(hot[j]) => hot'[j].status \notin NonTerminal
          /\ IsTerminal(cold[j]) => cold'[j].status \notin NonTerminal]_vars

Written(x) == \E y \in coldLog : y.id = x.id /\ y.rec = x.rec

\* Terminal records a Save or an Update has left and the cold tier has not got.
OwedAll == {x \in termLog : ~Written(x)}

\* Of these, the records the store handed to asyncSyncToDB.
OwedSynced == {x \in OwedAll : x.readback}

C8_StopFlushesEverything ==
    spc = "returned" => (syncQueue = << >> /\ OwedSynced = {})

\* C11: MemoryQueue.Enqueue on a queue that holds capacity-many jobs returns the
\* full-queue error at once and leaves the queue as it was; with room it appends
\* the job. Every upload step on the in-memory queue does one or the other.
C11_EnqueueFullOrAppend ==
    [][(qkind = "memory" /\ uploaded' # uploaded) =>
          IF Len(queue) >= QueueCap
          THEN queue' = queue /\ enqLog' = enqLog
          ELSE \E j \in uploaded' \ uploaded :
                   queue' = Append(queue, j) /\ enqLog' = Append(enqLog, j)]_vars

\* C11's case: an upload was refused by the full in-memory queue.
C11_Witness ==
    /\ qkind = "memory"
    /\ Len(queue) = QueueCap
    /\ \E j \in uploaded : j \notin Range(enqLog)

\* C12: Close is idempotent: a second call, after the first or together with
\* it, completes without failure, and the queue is closed as after one call.
C12_CloseIdempotent ==
    /\ ~cpanic
    /\ (\E c \in DOMAIN cpc : cpc[c] = "done") => cclosed

\* Transcribe has returned.
Returned == eret.kind # "running"

\* A result that carries an error.
IsErrorResult(r) == r.out \in {"failed", "cancelled"}

\* The indices of the segments that ended in error.
FailedSegments == {i \in DOMAIN eseg : eseg[i] \in {"failed", "cancelled"}}

\* The results with an error, in the order they were sent on the result channel.
ArrivedErrors == SelectSeq(earrived, IsErrorResult)

\* C13 as stated: the error Transcribe returns is that of the failing segment
\* with the lowest index, whatever the order of arrival.
C13_LowestIndexError ==
    (Returned /\ FailedSegments # {}) =>
        /\ eret.kind = "err"
        /\ \A i \in FailedSegments : eret.idx <= i

\* C13: when a segment ended in error Transcribe returns an error, and it is the
\* error of the failing segment whose result arrived first on the result channel.
C13_FirstArrivedError ==
    Returned =>
        /\ (eret.kind = "err") <=> (FailedSegments # {})
        /\ (eret.kind = "err") =>
               /\ ArrivedErrors # << >>
               /\ eret.idx = ArrivedErrors[1].idx
               /\ eret.idx \in FailedSegments

\* Two segments failed and the higher index arrived first.
C13_Witness ==
    /\ Returned
    /\ Len(ArrivedErrors) >= 2
    /\ \E i \in FailedSegments : i < eret.idx

\* What the processor of segment i got as text.
TextOf(i) == IF eseg[i] = "text" THEN SegmentText(i) ELSE << >>

RECURSIVE JoinedUpTo(_)
\* The texts of segments 0..n-1 in ascending index, a space between neighbours.
JoinedUpTo(n) ==
    IF n = 0 THEN << >>
    ELSE IF n = 1 THEN TextOf(0)
    ELSE JoinedUpTo(n - 1) \o <<" ">> \o TextOf(n - 1)

\* C14: when every segment succeeds the returned text is the texts of indices
\* 0..|S|-1, one each, ascending, joined by single spaces, whatever the order
\* in which the results arrived.
C14_MergedInIndexOrder ==
    (Returned /\ eret.kind = "ok") =>
        /\ DOMAIN ecoll.texts = 0..(etotal - 1)
        /\ \A i \in 0..(etotal - 1) : ecoll.texts[i] = TextOf(i)
        /\ eret.text = JoinedUpTo(etotal)

\* Every segment succeeded with a text and the results arrived out of index order.
C14_Witness ==
    /\ Returned
    /\ eret.kind = "ok"
    /\ etotal >= 2
    /\ \A i \in DOMAIN eseg : eseg[i] = "text"
    /\ \E k \in 1..(Len(earrived) - 1) : earrived[k].idx > earrived[k + 1].idx

\* The indices of the results sent on the result channel.
ArrivedIndices == {earrived[k].idx : k \in DOMAIN earrived}

C16_ProgressMonotone ==
    /\ [](\A j \in JobIds : store[j].progress \in 0..100)
    /\ [][\A j \in JobIds :
            /\ (store[j].status # StatusProcessing /\ store'[j].status = StatusProcessing)
                   => store'[j].progress = 0
            /\ (store[j].status = StatusProcessing /\ store'[j].status = StatusProcessing)
                   => store'[j].progress >= store[j].progress]_vars

\* A job in processing whose progress has moved: one of its two segments is in.
C16_Witness ==
    \E j \in JobIds : store[j].status = StatusProcessing /\ store[j].progress = 50

\* The copies of a job's record the hybrid store holds.
HybridCopies(j) == {hot[j], cold[j]} \ {NoJob}

\* C19: a failed record has a non-empty error and completed_at set, and a record
\* with a non-empty error is failed.
C19_ErrorIffFailed ==
    \A j \in HJobs : \A r \in HybridCopies(j) :
        /\ (r.status = StatusFailed) => (r.error # "" /\ r.completedAt)
        /\ (r.error # "") => (r.status = StatusFailed)

\* C17: a call sends at most R requests, none after it has returned and none
\* after the context is cancelled; a call cut short by the cancellation returns
\* the cancellation error, and it returns without waiting for a backoff timer.
C17_RetryBounded ==
    /\ [](\A c \in RetryCallers :
             /\ rcalls[c] <= rlimit
             /\ (c \in rlive /\ rret[c] # "none") => rret[c] = "cancelled"
             /\ (rret[c] = "exhausted") => rcalls[c] = rlimit)
    /\ [][\A c \in RetryCallers :
             rcalls'[c] # rcalls[c] =>
                 /\ rcalls'[c] = rcalls[c] + 1
                 /\ ~rctx
                 /\ rret[c] = "none"]_vars
    /\ rctx ~> (\A c \in RetryCallers : rret[c] # "none")

\* A call cancelled in its backoff wait has returned the cancellation error,
\* while another has succeeded on a later attempt.
C17_Witness ==
    /\ rlimit = MaxRetries
    /\ \E c \in rlive : rret[c] = "cancelled" /\ rcalls[c] \in 1..(rlimit - 1)
    /\ \E c \in RetryCallers : rret[c] = "ok" /\ rcalls[c] > 1

\* The value of the record: the job the cold tier's row stands for.
ColdValue == scanRow(gcold)

\* The hot tier holds the record's value.
HotHoldsValue == ghot # NoData /\ jsonUnmarshal(ghot) = ColdValue

\* C20 as stated: after the first Get of a record that only the cold tier has,
\* the hot tier holds the same value in the end.
C20_HotEventuallyHolds == (gret # << >>) ~> HotHoldsValue

\* C20: every Get of a record that only the cold tier had returns the record's
\* value, from either tier; each Get served by the cold tier starts one
\* write-back; a write-back whose set succeeds leaves the value in the hot tier,
\* one that fails leaves the hot tier as it was; and after the first Get a
\* write-back is attempted in the end.
C20_GetTwiceSameValue ==
    /\ [](/\ \A k \in DOMAIN gret : gret[k].job = ColdValue
          /\ ghot # NoData => HotHoldsValue
          /\ Len(SelectSeq(gret, LAMBDA r : r.tier = "cold")) = Len(gwb) + Len(gtries))
    /\ [][gtries' # gtries =>
            IF gtries'[Len(gtries')] = "failed" THEN ghot' = ghot ELSE HotHoldsValue']_vars
    /\ (gret # << >>) ~> (gtries # << >>)

\* Two Gets returned the record from the cold tier and a later one from the hot
\* tier, after a write-back that failed and one that succeeded.
C20_Witness ==
    /\ gcold.result # << >>
    /\ Len(gret) = 3
    /\ gret[1].tier = "cold" /\ gret[2].tier = "cold" /\ gret[3].tier = "hot"
    /\ gtries = <<"failed", "ok">>

\* C21: a Get that follows a Save that returned nil, with no write by a caller
\* in between, returns the saved job.
C21_SaveThenGet ==
    (vret.op = "get" /\ vlast # NoData) => (vret.ok /\ vret.job = vlast)

\* C23 as stated: when Delete returns nil the record is absent from both tiers.
C23_NilMeansAbsentEverywhere ==
    [][\A hotOk, coldOk \in BOOLEAN :
          (StoreDelete(hotOk, coldOk) /\ vret'.ok) =>
              (vhot' = NoData /\ vcold' = NoData)]_vars

\* C23: Delete deletes in the cold tier whatever the hot deletion did, returns
\* an error exactly when the cold deletion failed, and when it returns nil the
\* record is absent from the cold tier, and from the hot tier when the hot tier
\* answered; a hot tier that did not answer keeps its copy.
C23_DeleteBothTiers ==
    [][\A hotOk, coldOk \in BOOLEAN :
          StoreDelete(hotOk, coldOk) =>
              /\ coldOk => vcold' = NoData
              /\ vret'.ok <=> (coldOk /\ vcold # NoData)
              /\ vret'.ok => vcold' = NoData
              /\ (vret'.ok /\ hotOk) => vhot' = NoData
              /\ ~hotOk => vhot' = vhot]_vars

\* Delete has returned nil after a failed hot deletion: the cold row is gone and
\* the hot tier still holds the job.
C23_Witness ==
    /\ vret.op = "delete"
    /\ vret.ok
    /\ vcold = NoData
    /\ vhot # NoData

\* The terminal records a step has handed to asyncSyncToDB.
NewlySynced == {x \in termLog' \ termLog : x.readback}

C24_SegmentFilesPrivate == fevents = {}

\* C25: every Transcribe invocation whose Split created the segment directory
\* returns with the directory removed, whichever way it returns.
C25_DirectoryRemovedOnReturn ==
    [][\A i \in Invocations :
          (fpc[i] # "done" /\ fpc'[i] = "done" /\ i \in fmade) => ~fdir']_vars

\* Segment indices are 0, 1, 2, ... in the order of the list, each segment
\* starts where the previous one ends, and none is empty.
DenseAscending(S) ==
    /\ \A k \in 1..Len(S) : S[k].Index = k - 1 /\ S[k].Start < S[k].End
    /\ \A k \in 2..Len(S) : S[k - 1].End <= S[k].Start

\* C26: Split returns the upload itself as the only segment and creates no
\* directory when the duration is at most the segment length; otherwise the
\* segments have dense zero-based indices ascending in time and none is empty,
\* and an upload of exactly N segment lengths gives N segments.
C26_SplitShape ==
    \A i \in Invocations :
        (fpc[i] = "process") =>
            IF fdur[i] <= HalfSeconds(SegmentDuration)
            THEN fsegs[i] = <<WholeFile(i, fdur[i])>> /\ i \notin fmade
            ELSE /\ DenseAscending(fsegs[i])
                 /\ \A n \in 1..MaxMultiple :
                        fdur[i] = HalfSeconds(n * SegmentDuration) => Len(fsegs[i]) = n

\* The time a formatted time stamp stands for, in milliseconds.
StampMillis(x) == ((x.h * 3600 + x.m * 60 + x.s) * 1000) + x.ms

\* The cues of a file come segment by segment in ascending segment index, and
\* no cue starts before the cue written before it.
CuesAscending(file) ==
    \A n \in 2..Len(file.cues) :
        /\ file.cues[n - 1].from <= file.cues[n].from
        /\ StampMillis(file.cues[n - 1].start) <= StampMillis(file.cues[n].start)

\* C27: in the .srt and the .vtt file of a job the cues appear in ascending
\* segment index and each cue starts, in global time, no earlier than the cue
\* before it, in whichever order the results of the segments arrived.
C27_CuesMonotone == CuesAscending(bsrt) /\ CuesAscending(bvtt)

\* Both files are written with cues of more than one segment although the
\* result of a later segment arrived before that of an earlier one.
C27_Witness ==
    /\ bsrt.state = "written"
    /\ bvtt.state = "written"
    /\ \E a, b \in 1..Len(barrived) : a < b /\ barrived[a] > barrived[b]
    /\ \E n \in 2..Len(bvtt.cues) :
           /\ bvtt.cues[n - 1].from < bvtt.cues[n].from
           /\ bsrt.cues[n - 1].from < bsrt.cues[n].from

\* C28: once the delivery channel is closed, every worker stops calling
\* Dequeue after finitely many failed calls.
C28_RetriesEnd == (~kopen) ~> (\A w \in Workers : kpc[w] = "stopped")

\* C29: the messages delivered to the process and not acknowledged are never
\* more than the workers of the pool.
C29_UnackedWithinPool == Cardinality(kunacked) <= NumWorkers

\* C30: a Dequeue that receives a delivery whose body does not deserialise
\* nacks it without requeue, so that the message neither stays unacknowledged
\* nor returns to the queue, returns an error that sends the worker to sleep,
\* and leaves every job record as it is.
C30_PoisonNacked ==
    [][\A w \in Workers :
          DequeuePoison(w) =>
              /\ [tag |-> Head(kchan).id, requeue |-> FALSE, from |-> "Dequeue"] \in knacks'
              /\ Head(kchan) \notin kunacked'
              /\ \A k \in 1..Len(kbroker') : kbroker'[k] # Head(kchan)
              /\ klast'[w] = "unmarshal"
              /\ kpc'[w] = "sleep"
              /\ kjob'[w] = NoMsg
              /\ kstore' = kstore]_vars

\* A worker has come back from a Dequeue that nacked a message it could not
\* deserialise, with a job still waiting in the store.
C30_Witness ==
    /\ \E w \in Workers : klast[w] = "unmarshal" /\ kpc[w] = "sleep"
    /\ \E x \in knacks : x.from = "Dequeue" /\ ~x.requeue /\ kstore[x.tag] = "absent"
    /\ \E n \in 1..NumDeliveries : kstore[n] = StatusPending

\* C31: every worker has at most one job in flight, the Transcribe of a job
\* has at most NumProcessors remote calls in progress, and all workers together
\* have at most NumWorkers * NumProcessors.
C31_ConcurrencyBound ==
    /\ \A w \in Workers : Cardinality(nheld[w]) <= 1
    /\ \A w \in Workers : Cardinality(CallsOf(w)) <= NumProcessors
    /\ Cardinality({wp \in Workers \X (1..MaxEngSegs) : wp[2] \in CallsOf(wp[1])})
           <= NumWorkers * NumProcessors

\* Every worker holds a job of more segments than processors, and every
\* processor of every worker is in a remote call.
C31_Witness ==
    \A w \in Workers :
        /\ nheld[w] # {}
        /\ ntotal[w] > NumProcessors
        /\ Cardinality(CallsOf(w)) = NumProcessors

\* The message holds the word.
Contains(msg, word) == \E k \in 1..Len(msg) : msg[k] = word

\* The segments that failed all their attempts.
Exhausted == {i \in ErrSegments : ores[i].kind = "err"}

\* The job record has its terminal status.
ErrWritten == orec.status \in {StatusCompleted, StatusFailed}

\* C32 as stated: when a segment has failed all its attempts the job ends
\* failed and the error message of the record contains the message of the last
\* error of that segment.
C32_LastErrorOfEverySegment ==
    ErrWritten =>
        \A i \in Exhausted :
            /\ orec.status = StatusFailed
            /\ Contains(orec.error, oatt[i][MaxRetries])

\* The segment whose error reached the collector first.
FirstFailed == CHOOSE i \in Exhausted : oerrors[1] = SegmentError(i, ores[i].msg)

\* C32: when a segment has failed all its attempts the job ends failed and the
\* error message of the record is the count of the failed segments followed by
\* the error of the segment whose failure arrived first, which ends with the
\* error of the last attempt of that segment.
C32_LastErrorOfFirstFailure ==
    (ErrWritten /\ Exhausted # {}) =>
        /\ orec.status = StatusFailed
        /\ orec.error = <<ToString(Cardinality(Exhausted)), "errors:", "segment",
                          ToString(FirstFailed), "failed:", "retries",
                          ToString(MaxRetries), "failed:", oatt[FirstFailed][MaxRetries]>>

\* The record is failed after a segment whose last error differs from its
\* first, and the message holds the last one.
C32_Witness ==
    /\ orec.status = StatusFailed
    /\ \E i \in Exhausted :
           /\ oatt[i][1] # oatt[i][MaxRetries]
           /\ Contains(orec.error, oatt[i][MaxRetries])
           /\ ~Contains(orec.error, oatt[i][1])

\* C33: the write-back goroutine of a hybrid Get never replaces the hot value
\* a caller saved after the Get read the cold tier. (Get reads the cold tier
\* only when the hot tier holds nothing, so a hot value that a write-back
\* finds was written after that read.)
C33_WriteBackKeepsNewerHot ==
    [][\A o \in SaveOutcomes :
          (StoreWriteBack(o) /\ vlast # NoData /\ vhot = jsonMarshal(vlast)) =>
              vhot' = vhot]_vars

\* C35: after HybridJobStore.Delete has returned nil and until a caller calls
\* the store again, a tier that holds nothing under the id keeps holding
\* nothing: neither the sync worker nor a write-back goroutine brings the
\* record back.
C35_DeletedStaysDeleted ==
    [][(vret.op = "delete" /\ vret.ok /\ vret' = vret) =>
          /\ (vhot = NoData => vhot' = NoData)
          /\ (vcold = NoData => vcold' = NoData)]_vars

\* What HybridJobStore.Get returns for the id when the tiers hold h and c and
\* both answer.
ReadBack(h, c, j) == IF h[j] # NoJob THEN h[j] ELSE c[j]

\* C34: the completed write of processJob, after which the worker calls Ack
\* whatever Update returned, leaves the record completed with its result:
\* a job is never acked while its record is missing or not completed.
C34_AckOnlyAfterCompletedWrite ==
    [][\A j \in HJobs : \A hotOk, getOk \in BOOLEAN :
          HybridTerminal(j, "completed", hotOk, getOk) =>
              /\ ReadBack(hot', cold', j).status = StatusCompleted
              /\ ReadBack(hot', cold', j).result # << >>]_vars

\* C36: a worker whose Stop has been called does not take a job from the
\* queue: no Dequeue of a stopped worker returns a job to process.
C36_StoppedWorkerTakesNoJob ==
    [][\A w \in Workers :
          cancelled[w] => ~(wpc[w] = "dequeue" /\ wpc'[w] = "begin")]_vars

\* The sync path is quiescent: syncQueue is empty and the batch is flushed.
Quiescent == syncQueue = << >> /\ batch = << >>

\* C37: when the sync path is quiescent, the cold row of an id whose most recent
\* terminal version went to the cold tier by the queue-full synchronous write is
\* that version: no older snapshot flushed from syncQueue has replaced it.
C37_ColdHoldsNewestVersion ==
    \A j \in HJobs :
        (Quiescent /\ newest[j].via = "full") => cold[j] = newest[j].rec

\* C38: once Close has closed the tiers the sync worker attempts no batchSave
\* of a batch that holds records: its last flush came before db.Close.
C38_NoFlushAfterTiersClosed ==
    [][hpc = "closed" => ~(batch # << >> /\ batch' = << >>)]_vars

\* Job j was saved as pending and its Enqueue succeeded.
Enqueued(j) == \E i \in 1..Len(enqLog) : enqLog[i] = j

\* C39: with the in-memory queue and running workers, every job saved as
\* pending and enqueued reaches status completed or failed in the store, and a
\* job in one of these statuses keeps it.
C39_EnqueuedJobsFinish ==
    /\ \A j \in JobIds :
           (qkind = "memory" /\ Enqueued(j)) ~> IsTerminal(store[j])
    /\ [][\A j \in JobIds :
             (qkind = "memory" /\ IsTerminal(store[j]))
                 => store'[j].status = store[j].status]_vars

\* Every job was enqueued and has ended while the server runs, one completed
\* and one failed.
C39_Witness ==
    /\ qkind = "memory"
    /\ mpc = "serving"
    /\ \A j \in 1..NumJobs : Enqueued(j) /\ IsTerminal(store[j])
    /\ \E j, k \in 1..NumJobs :
           store[j].status = StatusCompleted /\ store[k].status = StatusFailed

====
